---- MODULE Spec2Model ----
(***************************************************************************)
(* Job lifecycle engine of doc2text_extractor: the job store               *)
(* (core/database.py), the JobManager (core/job_manager.py) and the        *)
(* callers that drive it (api/routes, api/dependencies.py).                *)
(*                                                                         *)
(* Time is a discrete clock; every datetime.now() reads it.  A nullable    *)
(* integer column holds Null, a nullable text column holds None.           *)
(*                                                                         *)
(* Spec is the application as it runs: every store access is made on the   *)
(* event loop thread and no session spans an await, so each session is one *)
(* step; extractions run in the executor's threads.  Filesystem and store  *)
(* calls do not raise in Spec.  SpecThreads is the store called from       *)
(* several threads, one step per statement sent to the shared connection.  *)
(*                                                                         *)
(* SpecApi is the API answering extract and download requests.  SpecImport *)
(* is the legacy import over several starts.  SpecPool is the worker pool  *)
(* given more jobs than workers, SpecQueue the same jobs submitted at once *)
(* with cleanup passes beside them.  SpecCleanup is the cleanup task:      *)
(* start_cleanup_task, _cleanup_worker and shutdown, the store raising in  *)
(* a pass or not.                                                          *)
(*                                                                         *)
(* SpecSweep is the cleanup task over several old jobs, one directory      *)
(* failing to be removed.  SpecRead is one job's life with the read        *)
(* requests (status, result, download, listing) between its steps.         *)
(* SpecFactory is the extractor factory under any registrations, SpecZip   *)
(* create_result_zip over output directories kept file by file.            *)
(*                                                                         *)
(* SpecDrain is the worker pool shut down with work in hand, SpecServe the *)
(* API with download responses still being sent while cleanup runs.        *)
(* SpecUpload is POST /extract file by file: the name sanitised, the file  *)
(* written to uploads/ and checked, the job created and run.  SpecLegacy   *)
(* is the legacy import when records of the file can be malformed.         *)
(***************************************************************************)
EXTENDS Integers, Sequences, FiniteSets, TLC

\* ------------------------------------------------------------------ bounds
\* new jobs submitted, last clock value, longest text / image list an
\* extractor returns
MaxJobs == 1
MaxTime == 2
MaxLen == 1

\* JobManager(max_workers, cleanup_hours), instantiated small
MaxWorkers == 1
CleanupHours == 1

\* cleanup tasks created, cleanup passes one task runs
MaxTasks == 2
MaxPasses == 2

\* _cleanup_worker: asyncio.sleep(3600) after a pass, asyncio.sleep(300)
\* after a pass that raised
CleanupInterval == 3600
ErrorBackoff == 300

\* NULL of an integer / timestamp column, None of a text column
Null == -1
None == "None"

\* job 0 is the job a previous run left behind (outputs/jobs.json), the
\* others are submitted in this run
LegacyIds == {0}
NewIds == 1..MaxJobs
JobIds == LegacyIds \cup NewIds

\* ------------------------------------------------------- database.JobStatus
PENDING == "PENDING"
PROCESSING == "PROCESSING"
COMPLETED == "COMPLETED"
FAILED == "FAILED"

JobStatus == {PENDING, PROCESSING, COMPLETED, FAILED}

\* JobStatus.<NAME>.value
StatusValue(s) ==
    CASE s = PENDING -> "pending"
      [] s = PROCESSING -> "processing"
      [] s = COMPLETED -> "completed"
      [] s = FAILED -> "failed"

\* JobStatus(value): lookup of an enum member by value
StatusOfValue(v) == CHOOSE s \in JobStatus : StatusValue(s) = v

\* api.models.JobStatus(job.status.value.lower()); the values are lower case
APIJobStatus(v) == CHOOSE s \in JobStatus : StatusValue(s) = v

\* ------------------------------------------------------------ extractors
FileTypes == {".pdf"}

\* the extractor classes: supported_extensions and supported_mime_types as
\* their __init__ sets them.  PlainExtractor is not in the repository: it
\* stands for a class a caller registers that takes files a built-in class
\* takes too.
ExtractorClass(cls) ==
    CASE cls = "PDFExtractor" ->
           [exts |-> {".pdf"}, mimes |-> {"application/pdf"}]
      [] cls = "DOCXExtractor" ->
           [exts |-> {".docx", ".doc"},
            mimes |-> {"application/vnd.openxmlformats-officedocument.wordprocessingml.document",
                       "application/msword"}]
      [] cls = "XLSXExtractor" ->
           [exts |-> {".xlsx", ".xls"},
            mimes |-> {"application/vnd.openxmlformats-officedocument.spreadsheetml.sheet",
                       "application/vnd.ms-excel"}]
      [] cls = "MarkdownExtractor" ->
           [exts |-> {".md", ".markdown", ".mdown", ".mkd"},
            mimes |-> {"text/markdown", "text/x-markdown"}]
      [] cls = "PlainExtractor" ->
           [exts |-> {".txt", ".md"}, mimes |-> {"text/plain"}]

\* extractors/__init__.py lines 13-16: the registrations, in order
Registry == << [name |-> "pdf", cls |-> "PDFExtractor"],
               [name |-> "docx", cls |-> "DOCXExtractor"],
               [name |-> "xlsx", cls |-> "XLSXExtractor"],
               [name |-> "markdown", cls |-> "MarkdownExtractor"] >>

\* file_path.suffix.lower()
Lower(suffix) ==
    CASE suffix = ".PDF" -> ".pdf"
      [] suffix = ".Md" -> ".md"
      [] OTHER -> suffix

\* mimetypes.guess_type(str(file_path))[0]: the type the table of the
\* standard library gives for the suffix, whatever its case; None when it
\* has none
guess_type(suffix) ==
    LET extension == Lower(suffix) IN
    CASE extension = ".pdf" -> "application/pdf"
      [] extension = ".docx" ->
            "application/vnd.openxmlformats-officedocument.wordprocessingml.document"
      [] extension \in {".doc", ".wiz"} -> "application/msword"
      [] extension = ".xlsx" ->
            "application/vnd.openxmlformats-officedocument.spreadsheetml.sheet"
      [] extension \in {".xls", ".xlb"} -> "application/vnd.ms-excel"
      [] extension \in {".md", ".markdown"} -> "text/markdown"
      [] extension = ".txt" -> "text/plain"
      [] OTHER -> None

\* BaseExtractor.can_extract, lines 113-117
can_extract(cls, suffix) ==
    \/ Lower(suffix) \in ExtractorClass(cls).exts
    \/ guess_type(suffix) \in ExtractorClass(cls).mimes

\* create_extractor_in with a fault seeded: the last registration that can
\* handle the file wins
create_extractor_last(extractors, suffix) ==
    LET hits == {i \in 1..Len(extractors) : can_extract(extractors[i].cls, suffix)}
    IN  IF hits = {} THEN None
        ELSE extractors[CHOOSE i \in hits : \A k \in hits : i >= k].cls

\* ExtractorFactory.create_extractor, lines 137-141, on the registrations
\* self._extractors: the class of the first one, in the order of the dict,
\* that can handle the file; None when there is none
create_extractor_in(extractors, suffix) ==
    LET hits == {i \in 1..Len(extractors) : can_extract(extractors[i].cls, suffix)}
    IN  IF hits = {} THEN None
        ELSE extractors[CHOOSE i \in hits : \A k \in hits : i <= k].cls

\* extractor_factory.create_extractor(file_path): the factory of the
\* application, with the built-in registrations
create_extractor(ftype) == create_extractor_in(Registry, ftype)

\* len(x) if x else 0, x given by its length (Null for None)
LenOrZero(x) == IF x = Null \/ x = 0 THEN 0 ELSE x

ErrorStrings == {"", "corrupt file"}

\* What extractor.extract can do: return an ExtractionResult or raise.
\* text and images are given by their lengths, Null for None; the successful
\* results pair a text of each length with an image list of another length.
ExtractionResults ==
    { [raised |-> FALSE, success |-> TRUE, text |-> t, images |-> MaxLen - LenOrZero(t),
       error |-> None] : t \in {Null} \cup (1..MaxLen) }
    \cup
    { [raised |-> FALSE, success |-> TRUE, text |-> 0, images |-> Null, error |-> None] }
    \cup
    [raised : {FALSE}, success : {FALSE}, text : {0}, images : {0},
     error : {None} \cup ErrorStrings]
    \cup
    [raised : {TRUE}, success : {FALSE}, text : {0}, images : {0},
     error : ErrorStrings]

NoResult == [raised |-> FALSE, success |-> FALSE, text |-> Null, images |-> 0,
             error |-> None]

\* NoExtractorFound with a fault seeded: the suffix is left out
NoExtractorFoundGeneric(suffix) == "No extractor found"

\* process_job line 122: the message of the ValueError raised when no
\* extractor takes the file, suffix being file_path.suffix
NoExtractorFound(suffix) == "No extractor found for file type: " \o suffix

\* ------------------------------------------------------------- Job record
\* NewJob with a fault seeded: the start stamp defaults to the creation time
NewJobStamped(filename, file_size, file_type, now) ==
    [status |-> PENDING, filename |-> filename, file_size |-> file_size,
     file_type |-> file_type, created_at |-> now, started_at |-> now,
     completed_at |-> Null, error_message |-> None, output_path |-> Null,
     text_length |-> Null, images_count |-> Null, extractor_used |-> None,
     processing_time |-> Null]

\* NewJob with a fault seeded: the size argument is not stored
NewJobNoSize(filename, file_size, file_type, now) ==
    [status |-> PENDING, filename |-> filename, file_size |-> 0,
     file_type |-> file_type, created_at |-> now, started_at |-> Null,
     completed_at |-> Null, error_message |-> None, output_path |-> Null,
     text_length |-> Null, images_count |-> Null, extractor_used |-> None,
     processing_time |-> Null]

\* database.Job as built by create_job
NewJob(filename, file_size, file_type, now) ==
    [status |-> PENDING, filename |-> filename, file_size |-> file_size,
     file_type |-> file_type, created_at |-> now, started_at |-> Null,
     completed_at |-> Null, error_message |-> None, output_path |-> Null,
     text_length |-> Null, images_count |-> Null, extractor_used |-> None,
     processing_time |-> Null]

\* StartedJob with a fault seeded: the status assignment is forgotten
StartedJobNoStatus(job, now) ==
    [job EXCEPT !.started_at = now]

\* process_job lines 110-111: the PENDING -> PROCESSING write
StartedJob(job, now) ==
    [job EXCEPT !.status = PROCESSING, !.started_at = now]

\* self.outputs_dir / job_id: a job's directory is named by its id, and so
\* is the output_path column (Null when unset)
OutputDir(job_id) == job_id

\* CompletedJob with a fault seeded: images_count is taken from the text
CompletedJobMiscounted(job, job_id, res, extractor, start_time, now) ==
    [job EXCEPT !.status = COMPLETED,
                !.output_path = OutputDir(job_id),
                !.text_length = LenOrZero(res.text),
                !.images_count = LenOrZero(res.text),
                !.extractor_used = extractor,
                !.completed_at = now,
                !.processing_time = now - start_time]

\* CompletedJob with a fault seeded: the job is stamped with the time it
\* was created at
CompletedJobBackdated(job, job_id, res, extractor, start_time, now) ==
    [job EXCEPT !.status = COMPLETED,
                !.output_path = OutputDir(job_id),
                !.text_length = LenOrZero(res.text),
                !.images_count = LenOrZero(res.images),
                !.extractor_used = extractor,
                !.completed_at = job.created_at,
                !.processing_time = job.created_at - start_time]

\* process_job lines 134-139, 162-163: the record after a successful result
CompletedJob(job, job_id, res, extractor, start_time, now) ==
    [job EXCEPT !.status = COMPLETED,
                !.output_path = OutputDir(job_id),
                !.text_length = LenOrZero(res.text),
                !.images_count = LenOrZero(res.images),
                !.extractor_used = extractor,
                !.completed_at = now,
                !.processing_time = now - start_time]

\* process_job lines 142-150: the extraction log written next to the outputs
ExtractionLog(job, job_id, extractor) ==
    [job_id |-> job_id, filename |-> job.filename, extractor_used |-> extractor,
     text_length |-> job.text_length, images_count |-> job.images_count,
     success |-> TRUE]

\* process_job lines 158-159, 162-163 (result.success false) and 172-175
\* (exception): the record after a failure carrying message msg
FailedJob(job, msg, start_time, now) ==
    [job EXCEPT !.status = FAILED,
                !.error_message = msg,
                !.completed_at = now,
                !.processing_time = now - start_time]

\* IsOldJob with a fault seeded: the cutoff itself counts as old
IsOldJobInclusive(job, cutoff_time) ==
    \/ job.status = COMPLETED /\ job.completed_at # Null /\ job.completed_at <= cutoff_time
    \/ job.status = PENDING /\ job.created_at # Null /\ job.created_at <= cutoff_time

\* IsOldJob with a fault seeded: a job that started before the cutoff counts
\* as old too
IsOldJobStarted(job, cutoff_time) ==
    \/ job.status = COMPLETED /\ job.completed_at # Null /\ job.completed_at < cutoff_time
    \/ job.status = PENDING /\ job.created_at # Null /\ job.created_at < cutoff_time
    \/ job.status = PROCESSING /\ job.started_at # Null /\ job.started_at < cutoff_time

\* cleanup_old_jobs lines 197-204: the filter of the query (a comparison
\* with a NULL column is not true in SQL)
IsOldJob(job, cutoff_time) ==
    \/ job.status = COMPLETED /\ job.completed_at # Null /\ job.completed_at < cutoff_time
    \/ job.status = PENDING /\ job.created_at # Null /\ job.created_at < cutoff_time

\* OldJobs with a fault seeded: .first() instead of .all()
OldJobsFirst(db, cutoff_time) ==
    LET hits == {k \in DOMAIN db : IsOldJob(db[k], cutoff_time)}
    IN  {k \in hits : \A h \in hits : k <= h}

\* the rows the query returns
OldJobs(db, cutoff_time) == {k \in DOMAIN db : IsOldJob(db[k], cutoff_time)}

\* JobInfo(job) as serialised by to_dict: what a reader gets
JobInfo(job) ==
    [status |-> IF job.status \in JobStatus
                THEN APIJobStatus(StatusValue(job.status)) ELSE PENDING,
     filename |-> job.filename, file_size |-> job.file_size,
     file_type |-> job.file_type, created_at |-> job.created_at,
     started_at |-> job.started_at, completed_at |-> job.completed_at,
     error_message |-> job.error_message, output_path |-> job.output_path]

\* ------------------------------------------------------- legacy jobs.json
\* One record of the legacy file, as JobInfo.to_dict wrote it: the status
\* by value, the timestamps in ISO format (here the clock value, Null for
\* null).  Legacy records date from before this run started (time 0).
LegacyRecords(k) ==
    { [status |-> "pending", created_at |-> 0, started_at |-> Null,
       completed_at |-> Null, error_message |-> None, output_path |-> Null],
      [status |-> "processing", created_at |-> 0, started_at |-> 0,
       completed_at |-> Null, error_message |-> None, output_path |-> Null],
      [status |-> "failed", created_at |-> 0, started_at |-> 0,
       completed_at |-> 0, error_message |-> "corrupt file", output_path |-> Null] }
    \cup
    { [status |-> "completed", created_at |-> 0, started_at |-> 0,
       completed_at |-> 0, error_message |-> None, output_path |-> OutputDir(k)] }

\* datetime.fromisoformat(x) if x else None
FromIso(x) == IF x = Null THEN Null ELSE x

\* migrate_from_json lines 138-161: the Job built from one legacy record
MigratedJob(job_data) ==
    [status |-> StatusOfValue(job_data.status), filename |-> "legacy.pdf",
     file_size |-> 1200, file_type |-> ".pdf",
     created_at |-> FromIso(job_data.created_at),
     started_at |-> FromIso(job_data.started_at),
     completed_at |-> FromIso(job_data.completed_at),
     error_message |-> job_data.error_message,
     output_path |-> job_data.output_path,
     text_length |-> Null, images_count |-> Null, extractor_used |-> None,
     processing_time |-> Null]

\* migrate_from_json with a fault seeded: a record of the file replaces the
\* row that has its id
migrate_from_json_overwriting(db, jobs_data) ==
    [k \in DOMAIN db \cup DOMAIN jobs_data |->
        IF k \in DOMAIN jobs_data THEN MigratedJob(jobs_data[k]) ELSE db[k]]

\* a timestamp that is not in ISO format
BadIso == Null - 1

\* Records of the legacy file that Job(...) cannot be built from: a status
\* that is no JobStatus value, a timestamp fromisoformat rejects, and a
\* record without its created_at key
MalformedRecords(k) ==
    { [status |-> "done", created_at |-> 0, started_at |-> 0,
       completed_at |-> 0, error_message |-> None, output_path |-> OutputDir(k)],
      [status |-> "pending", created_at |-> BadIso, started_at |-> Null,
       completed_at |-> Null, error_message |-> None, output_path |-> Null],
      [status |-> "pending", started_at |-> Null,
       completed_at |-> Null, error_message |-> None, output_path |-> Null] }

\* lines 138-161 raise for this record: KeyError, or ValueError of
\* JobStatus(...) or of datetime.fromisoformat(...)
Raises(job_data) ==
    \/ "created_at" \notin DOMAIN job_data
    \/ job_data.status \notin {StatusValue(st) : st \in JobStatus}
    \/ job_data.created_at = BadIso
    \/ job_data.started_at = BadIso
    \/ job_data.completed_at = BadIso

\* the ids of a file in the order the file lists them
RECURSIVE FileOrder(_)
FileOrder(ids) ==
    IF ids = {} THEN << >>
    ELSE LET first == CHOOSE k \in ids : \A i \in ids : k <= i
         IN  <<first>> \o FileOrder(ids \ {first})

\* migrate_from_json lines 131-162, the loop over jobs_data.items(): a
\* record whose id is in the store is passed over unread, any other is
\* built and added to the session; the loop ends at the first record that
\* raises
RECURSIVE MigrateLoop(_, _, _, _)
MigrateLoop(db, jobs_data, todo, added) ==
    IF todo = << >> THEN [raised |-> FALSE, added |-> added]
    ELSE IF Head(todo) \in DOMAIN db THEN MigrateLoop(db, jobs_data, Tail(todo), added)
    ELSE IF Raises(jobs_data[Head(todo)]) THEN [raised |-> TRUE, added |-> added]
    ELSE MigrateLoop(db, jobs_data, Tail(todo), added \cup {Head(todo)})

\* migrate_from_json with the records added before the exception kept
migrate_from_json_partial(db, jobs_data) ==
    LET run == MigrateLoop(db, jobs_data, FileOrder(DOMAIN jobs_data), {}) IN
    [k \in DOMAIN db \cup run.added |->
        IF k \in DOMAIN db THEN db[k] ELSE MigratedJob(jobs_data[k])]

\* migrate_from_json lines 117-169: records whose id is in the store are
\* skipped, the others are added and committed together.  An exception in
\* the loop leaves get_db_session through its rollback (lines 109-112) and
\* is logged by lines 168-169: nothing is added.
migrate_from_json(db, jobs_data) ==
    LET run == MigrateLoop(db, jobs_data, FileOrder(DOMAIN jobs_data), {}) IN
    IF run.raised THEN db
    ELSE [k \in DOMAIN db \cup run.added |->
             IF k \in DOMAIN db THEN db[k] ELSE MigratedJob(jobs_data[k])]

EmptyDb == [k \in {} |-> NewJob("", 0, "", 0)]

\* ------------------------------------------------------------------ state
VARIABLES
    store,        \* the jobs table: job_id -> Job, for the rows present
    clock,        \* datetime.now()
    pc,           \* per submitted job, where its process_job task stands
    start_time,   \* process_job's local start_time
    result,       \* what extractor.extract gave, until process_job reads it
    ret,          \* what process_job returned
    dirs,         \* job ids that have an output directory on disk
    logs,         \* extraction_log.json of the directories that hold one
    uploads,      \* job ids whose uploaded input file is on disk
    sweeps,       \* cleanup passes run back to back, nothing in between (0, 1, 2)
    conn,         \* the one pooled connection: rows written, not yet committed
    th,           \* per caller thread, the JobManager call it is in
    response,     \* what the last request about one job was answered
    zips,         \* per job id, the results archive in its output directory
    legacy,       \* outputs/jobs.json: job_id -> record, as far as an import
                  \* is still to read it (empty where none follows)
    imports,      \* imports run back to back, nothing in between (0, 1, 2)
    cleanup_task, \* JobManager._cleanup_task: a task id, Null for None
    workers,      \* per cleanup task created, where its _cleanup_worker stands
    executor_shutdown, \* JobManager.shutdown has run: the executor is shut down
    listing,      \* the jobs of the last answer, when it was a list of jobs
    deleted,      \* job ids whose rows cleanup passes have deleted so far
    extractors,   \* ExtractorFactory._extractors: the registrations, in order
    created,      \* the last create_extractor call: its file and what it returned
    tree,         \* the files and directories under outputs/, each with its path
    archive,      \* per job id, the last create_result_zip call: what it
                  \* returned and the entries of the archive it wrote
    staging,      \* the files of uploads/: path -> whose content it holds
    reqs,         \* per POST /extract request, where it stands and what it
                  \* has computed so far
    sending       \* job ids whose archive a download response is reading

vars == <<store, clock, pc, start_time, result, ret, dirs, logs, uploads, sweeps,
          conn, th, response, zips, legacy, imports, cleanup_task, workers,
          executor_shutdown, listing, deleted, extractors, created, tree, archive,
          staging, reqs, sending>>

\* the state of the cleanup scheduler
Sched == <<cleanup_task, workers>>

\* the extractor factory
Factory == <<extractors, created>>

\* the output directories file by file, and the archives built from them
Zip == <<tree, archive>>

\* the uploads directory file by file, and the requests that write to it
Upload == <<staging, reqs>>

\* the jobs of a list answer and the factory: what neither the job
\* lifecycle nor the cleanup task writes
Tools == <<listing, Factory, Zip, Upload, sending>>

\* what the job lifecycle leaves alone
Others == <<conn, th, response, legacy, Sched, executor_shutdown, Tools>>

\* callers of the JobManager from threads of their own
MaxThreads == 2
Threads == 1..MaxThreads

\* database.py lines 24-26: StaticPool keeps one DBAPI connection and hands
\* it to every session, so every session works in the same transaction
EmptyConn == [k \in {} |-> NewJob("", 0, "", 0)]

Idle == [op |-> "none", at |-> "idle"]

\* no download answered yet, no archive built, no cleanup task created
NoResponse == [job_id |-> Null, status_code |-> Null, detail |-> None]
NoZips == [k \in {} |-> "complete"]
NoWorkers == [w \in {} |-> 0]

\* create_result_zip returning None: a path of no parts
NoPath == << >>

\* no create_extractor call made yet
NoCreated == [file |-> None, cls |-> None]

\* nothing has been asked yet, and extractors/__init__.py has registered
\* the built-in extractors
InitTools ==
    /\ listing = << >>
    /\ extractors = Registry
    /\ created = NoCreated
    /\ tree = {}
    /\ archive = << >>
    /\ staging = << >>
    /\ reqs = << >>
    /\ sending = {}

Filename(ftype) == "report" \o ftype

\* the state after get_job_manager(): the JobManager is built and the
\* legacy file, if any, has been imported (api/dependencies.py)
Init ==
    /\ \E ids \in SUBSET LegacyIds :
         \E jobs_data \in [ids -> UNION {LegacyRecords(k) : k \in LegacyIds}] :
            /\ \A k \in ids : jobs_data[k] \in LegacyRecords(k)
            /\ store = migrate_from_json(EmptyDb, jobs_data)
            /\ dirs = {k \in ids : jobs_data[k].status = "completed"}
    /\ legacy = EmptyDb
    /\ logs = [k \in dirs |->
                 [job_id |-> k, filename |-> "legacy.pdf",
                  extractor_used |-> "PDFExtractor", text_length |-> 0,
                  images_count |-> 0, success |-> TRUE]]
    /\ clock = 0
    /\ pc = [j \in NewIds |-> "none"]
    /\ start_time = [j \in NewIds |-> Null]
    /\ result = [j \in NewIds |-> NoResult]
    /\ ret = [j \in NewIds |-> "none"]
    /\ uploads = {}
    /\ sweeps = 0
    /\ conn = EmptyConn
    /\ th = [t \in Threads |-> Idle]
    /\ response = NoResponse
    /\ zips = NoZips
    /\ imports = 0
    /\ cleanup_task = Null
    /\ workers = NoWorkers
    /\ executor_shutdown = FALSE
    /\ InitTools
    /\ deleted = {}

\* ------------------------------------------------------- store operations
\* JobManager.get_job: the JobInfo of the row, "not_found" for None
get_job(db, job_id) ==
    IF job_id \in DOMAIN db THEN JobInfo(db[job_id]).status ELSE "not_found"

Put(db, job_id, job) ==
    [k \in DOMAIN db \cup {job_id} |-> IF k = job_id THEN job ELSE db[k]]

Without(db, ids) == [k \in DOMAIN db \ ids |-> db[k]]

\* str(e) of the RuntimeError of ThreadPoolExecutor.submit once shutdown
\* has been called
SubmitAfterShutdown == "cannot schedule new futures after shutdown"

\* uuid4(): an id no job has had
FreshId ==
    CHOOSE j \in DOMAIN pc : pc[j] = "none" /\ \A k \in DOMAIN pc : pc[k] = "none" => j <= k

\* ------------------------------------------------------------------ actions
\* POST /extract, lines 33-46: the upload is saved, create_job inserts the
\* PENDING row and process_job is queued as a background task
CreateJob(ftype) ==
    /\ \E j \in DOMAIN pc : pc[j] = "none"
    /\ LET j == FreshId IN
        /\ store' = Put(store, j, NewJob(Filename(ftype), 1200, ftype, clock))
        /\ pc' = [pc EXCEPT ![j] = "queued"]
        /\ uploads' = uploads \cup {j}
    /\ sweeps' = 0
    /\ imports' = 0
    /\ UNCHANGED <<clock, start_time, result, ret, dirs, logs, zips, Others, deleted>>

\* process_job lines 101-128, up to the await: the job goes to PROCESSING,
\* its directory is made and the extraction is handed to the executor.  A
\* missing row ends the task; a missing extractor, or an executor that is
\* shut down and raises at the submit, takes the except branch (lines
\* 166-189).
ProcessStart(j) ==
    /\ pc[j] = "queued"
    /\ sweeps' = 0
    /\ imports' = 0
    /\ UNCHANGED <<zips, Others, deleted>>
    /\ IF j \notin DOMAIN store
       THEN /\ pc' = [pc EXCEPT ![j] = "returned"]
            /\ ret' = [ret EXCEPT ![j] = "False"]
            /\ UNCHANGED <<store, clock, start_time, result, dirs, logs, uploads>>
       ELSE LET started == StartedJob(store[j], clock)
                extractor == create_extractor(started.file_type)
            IN  /\ start_time' = [start_time EXCEPT ![j] = clock]
                /\ dirs' = dirs \cup {j}
                /\ IF extractor = None \/ executor_shutdown
                   THEN /\ store' = Put(store, j,
                                FailedJob(started,
                                          IF extractor = None
                                          THEN NoExtractorFound(started.file_type)
                                          ELSE SubmitAfterShutdown,
                                          clock, clock))
                        /\ uploads' = uploads \ {j}
                        /\ pc' = [pc EXCEPT ![j] = "returned"]
                        /\ ret' = [ret EXCEPT ![j] = "False"]
                   ELSE /\ store' = Put(store, j, started)
                        /\ pc' = [pc EXCEPT ![j] = "submitted"]
                        /\ UNCHANGED <<uploads, ret>>
                /\ UNCHANGED <<clock, result, logs>>

\* ExtractBegin with a fault seeded: a call that finds every worker busy is
\* dropped, and its process_job never resumes
ExtractBeginShedding(j) ==
    /\ pc[j] = "submitted"
    /\ pc' = [pc EXCEPT ![j] =
                IF Cardinality({k \in DOMAIN pc : pc[k] = "extracting"}) < MaxWorkers
                THEN "extracting" ELSE "dropped"]
    /\ sweeps' = 0
    /\ imports' = 0
    /\ UNCHANGED <<store, clock, start_time, result, ret, dirs, logs, uploads, zips, Others, deleted>>

\* ExtractBegin with a fault seeded: a thread is started for every call
ExtractBeginUnbounded(j) ==
    /\ pc[j] = "submitted"
    /\ pc' = [pc EXCEPT ![j] = "extracting"]
    /\ sweeps' = 0
    /\ imports' = 0
    /\ UNCHANGED <<store, clock, start_time, result, ret, dirs, logs, uploads, zips, Others, deleted>>

\* ThreadPoolExecutor(max_workers): a free worker thread takes the call
ExtractBegin(j) ==
    /\ pc[j] = "submitted"
    /\ Cardinality({k \in DOMAIN pc : pc[k] = "extracting"}) < MaxWorkers
    /\ pc' = [pc EXCEPT ![j] = "extracting"]
    /\ sweeps' = 0
    /\ imports' = 0
    /\ UNCHANGED <<store, clock, start_time, result, ret, dirs, logs, uploads, zips, Others, deleted>>

\* extractor.extract returns a result or raises, in its worker thread
ExtractEnd(j, r) ==
    /\ pc[j] = "extracting"
    /\ pc' = [pc EXCEPT ![j] = "extracted"]
    /\ result' = [result EXCEPT ![j] = r]
    /\ sweeps' = 0
    /\ imports' = 0
    /\ UNCHANGED <<store, clock, start_time, ret, dirs, logs, uploads, zips, Others, deleted>>

\* process_job lines 130-164 and 166-176: the row and the log after the
\* extraction, as <<store, logs>>
Finished(db, lg, j, r, extractor, st, now) ==
    IF j \notin DOMAIN db THEN <<db, lg>>
    ELSE IF r.raised THEN <<Put(db, j, FailedJob(db[j], r.error, st, now)), lg>>
    ELSE IF r.success
         THEN LET job == CompletedJob(db[j], j, r, extractor, st, now)
              IN  <<Put(db, j, job),
                    [k \in DOMAIN lg \cup {j} |->
                        IF k = j THEN ExtractionLog(job, j, extractor) ELSE lg[k]]>>
    ELSE <<Put(db, j, FailedJob(db[j], r.error, st, now)), lg>>

\* ProcessFinish with a fault seeded: a job that failed is queued again
ProcessFinishRetry(j) ==
    /\ pc[j] = "extracted"
    /\ LET extractor == IF j \in DOMAIN store
                        THEN create_extractor(store[j].file_type) ELSE None
           fin == Finished(store, logs, j, result[j], extractor, start_time[j], clock)
       IN  /\ store' = fin[1]
           /\ logs' = fin[2]
           /\ ret' = [ret EXCEPT ![j] =
                        IF j \notin DOMAIN fin[1] THEN "None"
                        ELSE IF fin[1][j].status = COMPLETED THEN "True" ELSE "False"]
           /\ pc' = [pc EXCEPT ![j] =
                        IF j \in DOMAIN fin[1] /\ fin[1][j].status = FAILED
                        THEN "queued" ELSE "returned"]
    /\ uploads' = uploads \ {j}
    /\ sweeps' = 0
    /\ imports' = 0
    /\ UNCHANGED <<clock, start_time, result, dirs, zips, Others, deleted>>

\* process_job lines 130-189, after the await: the result is written to the
\* row, the upload is removed and the final status is read back
ProcessFinish(j) ==
    /\ pc[j] = "extracted"
    /\ LET extractor == IF j \in DOMAIN store
                        THEN create_extractor(store[j].file_type) ELSE None
           fin == Finished(store, logs, j, result[j], extractor, start_time[j], clock)
       IN  /\ store' = fin[1]
           /\ logs' = fin[2]
           /\ ret' = [ret EXCEPT ![j] =
                        IF j \notin DOMAIN fin[1] THEN "None"
                        ELSE IF fin[1][j].status = COMPLETED THEN "True" ELSE "False"]
    /\ uploads' = uploads \ {j}
    /\ pc' = [pc EXCEPT ![j] = "returned"]
    /\ sweeps' = 0
    /\ imports' = 0
    /\ UNCHANGED <<clock, start_time, result, dirs, zips, Others, deleted>>

\* cleanup_old_jobs lines 193-220: the directories and the rows of the old
\* jobs are removed
CleanupOldJobs ==
    LET cutoff_time == clock - CleanupHours
        old_jobs == OldJobs(store, cutoff_time)
    IN  /\ dirs' = dirs \ old_jobs
        /\ logs' = [k \in DOMAIN logs \ old_jobs |-> logs[k]]
        /\ store' = Without(store, old_jobs)
        /\ sweeps' = IF sweeps < 2 THEN sweeps + 1 ELSE 2
        /\ imports' = 0
        /\ zips' = [k \in DOMAIN zips \ old_jobs |-> zips[k]]
        /\ deleted' = deleted \cup old_jobs
        /\ UNCHANGED <<clock, pc, start_time, result, ret, uploads, Others>>

\* time passes
Tick ==
    /\ clock < MaxTime
    /\ clock' = clock + 1
    /\ sweeps' = 0
    /\ imports' = 0
    /\ UNCHANGED <<store, pc, start_time, result, ret, dirs, logs, uploads, zips, Others, deleted>>

Next ==
    \/ \E ftype \in FileTypes : CreateJob(ftype)
    \/ \E j \in NewIds : ProcessStart(j)
    \/ \E j \in NewIds : ExtractBegin(j)
    \/ \E j \in NewIds : \E r \in ExtractionResults : ExtractEnd(j, r)
    \/ \E j \in NewIds : ProcessFinish(j)
    \/ CleanupOldJobs
    \/ Tick

Spec == Init /\ [][Next]_vars

\* ------------------------------------------- the store called from threads
\* create_job, get_job and the first session of process_job (lines 104-112)
\* called from threads of their own, as the engine's "thread-safe settings"
\* (check_same_thread=False) allow.  Each statement a session sends to the
\* shared connection is one step.  Thread t works on job t, which is in the
\* store, or creates job MaxThreads + t.
CreatedId(t) == MaxThreads + t

\* what a SELECT on the connection sees: the committed rows under the rows
\* written in the open transaction
View(db, c) ==
    [k \in DOMAIN db \cup DOMAIN c |-> IF k \in DOMAIN c THEN c[k] ELSE db[k]]

InitThreads ==
    /\ store = [k \in Threads |-> NewJob(Filename(".pdf"), 1200, ".pdf", 0)]
    /\ clock = 0
    /\ pc = [j \in NewIds |-> "none"]
    /\ start_time = [j \in NewIds |-> Null]
    /\ result = [j \in NewIds |-> NoResult]
    /\ ret = [j \in NewIds |-> "none"]
    /\ dirs = {}
    /\ logs = [k \in {} |-> 0]
    /\ uploads = {}
    /\ sweeps = 0
    /\ conn = EmptyConn
    /\ th = [t \in Threads |-> Idle]
    /\ response = NoResponse
    /\ zips = NoZips
    /\ legacy = EmptyDb
    /\ imports = 0
    /\ cleanup_task = Null
    /\ workers = NoWorkers
    /\ executor_shutdown = FALSE
    /\ InitTools
    /\ deleted = {}

Rest == <<clock, pc, start_time, result, ret, dirs, logs, uploads, sweeps,
         response, zips, legacy, imports, Sched, executor_shutdown, Tools, deleted>>

\* a thread enters create_job, get_job or process_job
Call(t, op) ==
    /\ th[t].at = "idle"
    /\ th' = [th EXCEPT ![t] = [op |-> op,
                                at |-> IF op = "create" THEN "insert" ELSE "select"]]
    /\ UNCHANGED <<store, conn, Rest>>

\* db.query(Job).filter(Job.job_id == job_id).first()
Select(t) ==
    /\ th[t].at = "select"
    /\ th' = [th EXCEPT ![t].at =
                IF t \notin DOMAIN View(store, conn) \/ th[t].op = "get"
                THEN "commit" ELSE "update"]
    /\ UNCHANGED <<store, conn, Rest>>

\* create_job line 80, db.commit(): the flush sends the INSERT
Insert(t) ==
    /\ th[t].at = "insert"
    /\ conn' = Put(conn, CreatedId(t), NewJob(Filename(".pdf"), 1200, ".pdf", clock))
    /\ th' = [th EXCEPT ![t].at = "commit"]
    /\ UNCHANGED <<store, Rest>>

\* process_job line 112, db.commit(): the flush sends the UPDATE of status
\* and started_at
Update(t) ==
    /\ th[t].at = "update"
    /\ t \in DOMAIN View(store, conn)
    /\ conn' = Put(conn, t, StartedJob(View(store, conn)[t], clock))
    /\ th' = [th EXCEPT ![t].at = "commit"]
    /\ UNCHANGED <<store, Rest>>

\* db.commit(): COMMIT on the shared connection makes every written row
\* durable, whichever session wrote it
Commit(t) ==
    /\ th[t].at = "commit"
    /\ store' = View(store, conn)
    /\ conn' = EmptyConn
    /\ th' = [th EXCEPT ![t].at = "release"]
    /\ UNCHANGED Rest

\* the session gives the connection back (get_db_session line 114 at the
\* latest): the pool resets it with ROLLBACK, which drops every row written
\* and not committed, whichever session wrote it
Release(t) ==
    /\ th[t].at = "release"
    /\ conn' = EmptyConn
    /\ th' = [th EXCEPT ![t].at = "done"]
    /\ UNCHANGED <<store, Rest>>

NextThreads ==
    \/ \E t \in Threads : \E op \in {"create", "start", "get"} : Call(t, op)
    \/ \E t \in Threads : Select(t)
    \/ \E t \in Threads : Insert(t)
    \/ \E t \in Threads : Update(t)
    \/ \E t \in Threads : Commit(t)
    \/ \E t \in Threads : Release(t)

SpecThreads == InitThreads /\ [][NextThreads]_vars

\* ------------------------------------------------------- download requests
\* FileManager.job_output_exists: the job's directory is there and holds
\* something (the files of a job are its extraction log and its archive)
job_output_exists(job_id) ==
    job_id \in dirs /\ (job_id \in DOMAIN logs \/ job_id \in DOMAIN zips)

\* how create_result_zip can go: through, or with an exception before
\* ("open") or after ("write") the archive file is on disk
ZipFaults == {"none", "open", "write"}

\* download_results with a fault seeded: the status check is left out
download_results_unchecked(db, job_id, zip_fault) ==
    IF get_job(db, job_id) = "not_found"
    THEN [job_id |-> job_id, status_code |-> 404, detail |-> "Job not found"]
    ELSE IF ~job_output_exists(job_id)
    THEN [job_id |-> job_id, status_code |-> 404, detail |-> "Job results not found"]
    ELSE IF zip_fault # "none"
    THEN [job_id |-> job_id, status_code |-> 500,
          detail |-> "Failed to create results archive"]
    ELSE [job_id |-> job_id, status_code |-> 200, detail |-> "results.zip"]

\* download_results lines 76-101: what GET /extract/{job_id}/download
\* answers, 200 being the FileResponse of the archive
download_results(db, job_id, zip_fault) ==
    IF get_job(db, job_id) = "not_found"
    THEN [job_id |-> job_id, status_code |-> 404, detail |-> "Job not found"]
    ELSE IF get_job(db, job_id) # COMPLETED
    THEN [job_id |-> job_id, status_code |-> 400, detail |-> "Job not completed"]
    ELSE IF ~job_output_exists(job_id)
    THEN [job_id |-> job_id, status_code |-> 404, detail |-> "Job results not found"]
    ELSE IF zip_fault # "none"
    THEN [job_id |-> job_id, status_code |-> 500,
          detail |-> "Failed to create results archive"]
    ELSE [job_id |-> job_id, status_code |-> 200, detail |-> "results.zip"]

\* GET /extract/{job_id}/download: the request is answered; create_result_zip
\* (file_manager.py lines 129-153) is reached only on the way to 200 or 500
\* and writes the archive into the job's directory
Download(job_id, zip_fault) ==
    LET answer == download_results(store, job_id, zip_fault) IN
    /\ response' = answer
    /\ zips' = IF answer.status_code = 200 THEN Put(zips, job_id, "complete")
               ELSE IF answer.status_code = 500 /\ zip_fault = "write"
                    THEN Put(zips, job_id, "partial")
               ELSE zips
    /\ listing' = << >>
    /\ sending' = IF answer.status_code = 200 THEN sending \cup {job_id} ELSE sending
    /\ UNCHANGED <<store, clock, pc, start_time, result, ret, dirs, logs, uploads,
                   sweeps, imports, conn, th, legacy, Sched, executor_shutdown, deleted,
                   Factory, Zip, Upload>>

\* the API serving extract and download requests, no time passing
NextApi ==
    \/ \E ftype \in FileTypes : CreateJob(ftype)
    \/ \E j \in NewIds : ProcessStart(j)
    \/ \E j \in NewIds : ExtractBegin(j)
    \/ \E j \in NewIds : \E r \in ExtractionResults : ExtractEnd(j, r)
    \/ \E j \in NewIds : ProcessFinish(j)
    \/ \E job_id \in JobIds : \E zip_fault \in ZipFaults : Download(job_id, zip_fault)

SpecApi == Init /\ [][NextApi]_vars

\* ------------------------------------------------------------ the import
\* ids the legacy file can hold
FileIds == {0, 1}

\* the extraction log in the directory of a job the legacy application
\* completed
LegacyLog(k) ==
    [job_id |-> k, filename |-> "legacy.pdf", extractor_used |-> "PDFExtractor",
     text_length |-> 0, images_count |-> 0, success |-> TRUE]

\* the first start on an installation of the legacy application: the store
\* is empty, outputs/ holds jobs.json (or not) and the directories of the
\* jobs it lists as completed
InitImport ==
    /\ \E ids \in SUBSET FileIds :
         \E jobs_data \in [ids -> UNION {LegacyRecords(k) : k \in FileIds}] :
            /\ \A k \in ids : jobs_data[k] \in LegacyRecords(k)
            /\ legacy = jobs_data
            /\ dirs = {k \in ids : jobs_data[k].status = "completed"}
    /\ logs = [k \in dirs |-> LegacyLog(k)]
    /\ store = EmptyDb
    /\ clock = 0
    /\ pc = [j \in NewIds |-> "none"]
    /\ start_time = [j \in NewIds |-> Null]
    /\ result = [j \in NewIds |-> NoResult]
    /\ ret = [j \in NewIds |-> "none"]
    /\ uploads = {}
    /\ sweeps = 0
    /\ conn = EmptyConn
    /\ th = [t \in Threads |-> Idle]
    /\ response = NoResponse
    /\ zips = NoZips
    /\ imports = 0
    /\ cleanup_task = Null
    /\ workers = NoWorkers
    /\ executor_shutdown = FALSE
    /\ InitTools
    /\ deleted = {}

\* get_job_manager lines 34-37 at a start of the application, or
\* migrate_jobs.py: migrate_from_json(outputs/jobs.json) runs on the store
\* as it is
MigrateFromJson ==
    /\ store' = migrate_from_json(store, legacy)
    /\ imports' = IF imports < 2 THEN imports + 1 ELSE 2
    /\ sweeps' = 0
    /\ UNCHANGED <<clock, pc, start_time, result, ret, dirs, logs, uploads, zips,
                   Others, deleted>>

\* the legacy application, still installed, rewrites the record of job k
\* in jobs.json; a job it completed has its directory and log
LegacyRewrite(k, job_data) ==
    /\ k \in DOMAIN legacy
    /\ job_data # legacy[k]
    /\ legacy' = [legacy EXCEPT ![k] = job_data]
    /\ dirs' = IF job_data.status = "completed" THEN dirs \cup {k} ELSE dirs
    /\ logs' = IF job_data.status = "completed" /\ k \notin DOMAIN logs
               THEN Put(logs, k, LegacyLog(k)) ELSE logs
    /\ sweeps' = 0
    /\ imports' = 0
    /\ UNCHANGED <<store, clock, pc, start_time, result, ret, uploads, zips,
                   conn, th, response, Sched, executor_shutdown, Tools, deleted>>

NextImport ==
    \/ MigrateFromJson
    \/ \E k \in FileIds : \E job_data \in LegacyRecords(k) : LegacyRewrite(k, job_data)
    \/ CleanupOldJobs
    \/ Tick

SpecImport == InitImport /\ [][NextImport]_vars

\* ---------------------------------------------------------- the worker pool
\* The JobManager given one job more than it has workers, by a caller that
\* hands it files of any type (POST /extract passes on the types that have
\* an extractor only).  No time passes.
PoolIds == 1..(MaxWorkers + 1)
PoolFileTypes == {".pdf", ".txt"}

InitPool ==
    /\ store = EmptyDb
    /\ dirs = {}
    /\ logs = [k \in {} |-> LegacyLog(k)]
    /\ legacy = EmptyDb
    /\ clock = 0
    /\ pc = [j \in PoolIds |-> "none"]
    /\ start_time = [j \in PoolIds |-> Null]
    /\ result = [j \in PoolIds |-> NoResult]
    /\ ret = [j \in PoolIds |-> "none"]
    /\ uploads = {}
    /\ sweeps = 0
    /\ conn = EmptyConn
    /\ th = [t \in Threads |-> Idle]
    /\ response = NoResponse
    /\ zips = NoZips
    /\ imports = 0
    /\ cleanup_task = Null
    /\ workers = NoWorkers
    /\ executor_shutdown = FALSE
    /\ InitTools
    /\ deleted = {}

NextPool ==
    \/ \E ftype \in PoolFileTypes : CreateJob(ftype)
    \/ \E j \in PoolIds : ProcessStart(j)
    \/ \E j \in PoolIds : ExtractBegin(j)
    \/ \E j \in PoolIds : \E r \in ExtractionResults : ExtractEnd(j, r)
    \/ \E j \in PoolIds : ProcessFinish(j)

\* The event loop runs every task that can take a step, an idle worker
\* thread takes the next queued call, and a call to an extractor returns.
FairPool ==
    \A j \in PoolIds :
        /\ WF_vars(ProcessStart(j))
        /\ WF_vars(ExtractBegin(j))
        /\ WF_vars(\E r \in ExtractionResults : ExtractEnd(j, r))
        /\ WF_vars(ProcessFinish(j))

SpecPool == InitPool /\ [][NextPool]_vars /\ FairPool

\* The same jobs submitted at once, at time 0, with their process_job tasks
\* waiting for the event loop, and the cleanup pass running beside them.
InitQueue ==
    /\ store = [j \in PoolIds |-> NewJob(Filename(".pdf"), 1200, ".pdf", 0)]
    /\ dirs = {}
    /\ logs = [k \in {} |-> LegacyLog(k)]
    /\ legacy = EmptyDb
    /\ clock = 0
    /\ pc = [j \in PoolIds |-> "queued"]
    /\ start_time = [j \in PoolIds |-> Null]
    /\ result = [j \in PoolIds |-> NoResult]
    /\ ret = [j \in PoolIds |-> "none"]
    /\ uploads = PoolIds
    /\ sweeps = 0
    /\ conn = EmptyConn
    /\ th = [t \in Threads |-> Idle]
    /\ response = NoResponse
    /\ zips = NoZips
    /\ imports = 0
    /\ cleanup_task = Null
    /\ workers = NoWorkers
    /\ executor_shutdown = FALSE
    /\ InitTools
    /\ deleted = {}

\* time passes, by more than the retention window at once
Elapse ==
    /\ clock = 0
    /\ clock' = CleanupHours + 1
    /\ sweeps' = 0
    /\ imports' = 0
    /\ UNCHANGED <<store, pc, start_time, result, ret, dirs, logs, uploads, zips, Others, deleted>>

\* one result of each kind: a success, a failure returned, an exception
QueueResults ==
    {r \in ExtractionResults : r.error = "corrupt file" \/ (r.success /\ r.text = Null)}

NextQueue ==
    \/ \E j \in PoolIds : ProcessStart(j)
    \/ \E j \in PoolIds : ExtractBegin(j)
    \/ \E j \in PoolIds : \E r \in QueueResults : ExtractEnd(j, r)
    \/ \E j \in PoolIds : ProcessFinish(j)
    \/ CleanupOldJobs
    \/ Elapse

SpecQueue == InitQueue /\ [][NextQueue]_vars /\ FairPool

\* ------------------------------------------------------ downloads served
\* The API with the responses to downloads being sent, and the cleanup
\* running beside them.
\* FileResponse (download_results lines 94-101) has sent the archive: the
\* handler returns it, and the file is read and sent after that
SendEnd(job_id) ==
    /\ job_id \in sending
    /\ sending' = sending \ {job_id}
    /\ UNCHANGED <<store, clock, pc, start_time, result, ret, dirs, logs, uploads,
                   sweeps, imports, zips, conn, th, response, legacy, Sched,
                   executor_shutdown, listing, deleted, Factory, Zip, Upload>>

NextServe ==
    \/ NextApi
    \/ \E job_id \in JobIds : SendEnd(job_id)
    \/ CleanupOldJobs
    \/ Elapse

SpecServe == Init /\ [][NextServe]_vars

\* ------------------------------------------------ the import, any file
\* The import over starts of the application when the records of the file
\* can be malformed, the cleanup running between the starts.
InitLegacy ==
    /\ \E jobs_data \in [FileIds -> UNION {LegacyRecords(k) \cup MalformedRecords(k) : k \in FileIds}] :
          /\ \A k \in FileIds : jobs_data[k] \in LegacyRecords(k) \cup MalformedRecords(k)
          /\ legacy = jobs_data
          /\ dirs = {k \in FileIds : jobs_data[k].status = "completed"}
    /\ logs = [k \in dirs |-> LegacyLog(k)]
    /\ store = EmptyDb
    /\ clock = 0
    /\ pc = [j \in NewIds |-> "none"]
    /\ start_time = [j \in NewIds |-> Null]
    /\ result = [j \in NewIds |-> NoResult]
    /\ ret = [j \in NewIds |-> "none"]
    /\ uploads = {}
    /\ sweeps = 0
    /\ conn = EmptyConn
    /\ th = [t \in Threads |-> Idle]
    /\ response = NoResponse
    /\ zips = NoZips
    /\ imports = 0
    /\ cleanup_task = Null
    /\ workers = NoWorkers
    /\ executor_shutdown = FALSE
    /\ InitTools
    /\ deleted = {}

NextLegacy ==
    \/ MigrateFromJson
    \/ \E k \in FileIds : \E job_data \in LegacyRecords(k) \cup MalformedRecords(k) :
          LegacyRewrite(k, job_data)
    \/ CleanupOldJobs
    \/ Elapse

SpecLegacy == InitLegacy /\ [][NextLegacy]_vars

\* ------------------------------------------------------ the cleanup worker
TaskIds == 1..MaxTasks

\* asyncio.create_task(self._cleanup_worker()): the task exists and has not
\* run yet
NewWorker == [at |-> "created", delay |-> Null, cancelling |-> FALSE,
              passes |-> 0, failed |-> 0]

\* how a pass can go: through, or with the store raising in the query
\* (line 197) or in the commit (line 220)
PassFaults == {"none", "query", "commit"}

\* AfterPass with a fault seeded: an exception ends the worker
AfterPassFatal(worker, fault) ==
    IF fault = "none"
    THEN [worker EXCEPT !.at = "sleep", !.delay = CleanupInterval,
                        !.passes = worker.passes + 1]
    ELSE [worker EXCEPT !.at = "done", !.passes = worker.passes + 1,
                        !.failed = worker.failed + 1]

\* _cleanup_worker lines 232-240: after cleanup_old_jobs the worker sleeps
\* an hour, after an exception of it five minutes
AfterPass(worker, fault) ==
    IF fault = "none"
    THEN [worker EXCEPT !.at = "sleep", !.delay = CleanupInterval,
                        !.passes = worker.passes + 1]
    ELSE [worker EXCEPT !.at = "sleep", !.delay = ErrorBackoff,
                        !.passes = worker.passes + 1,
                        !.failed = worker.failed + 1]

\* StartCleanupTask with a fault seeded: a task is created at every call
StartCleanupTaskAlways ==
    /\ Cardinality(DOMAIN workers) < MaxTasks
    /\ LET w == Cardinality(DOMAIN workers) + 1 IN
        /\ workers' = Put(workers, w, NewWorker)
        /\ cleanup_task' = w
    /\ UNCHANGED <<store, clock, pc, start_time, result, ret, dirs, logs, uploads,
                   sweeps, imports, zips, conn, th, response, legacy, executor_shutdown, Tools, deleted>>

\* start_cleanup_task lines 227-228, called by lifespan at startup and as a
\* background task after every extract request; it has no await
StartCleanupTask ==
    /\ IF cleanup_task = Null \/ workers[cleanup_task].at = "done"
       THEN /\ Cardinality(DOMAIN workers) < MaxTasks
            /\ LET w == Cardinality(DOMAIN workers) + 1 IN
                /\ workers' = Put(workers, w, NewWorker)
                /\ cleanup_task' = w
       ELSE UNCHANGED Sched
    /\ UNCHANGED <<store, clock, pc, start_time, result, ret, dirs, logs, uploads,
                   sweeps, imports, zips, conn, th, response, legacy, executor_shutdown, Tools, deleted>>

\* _cleanup_worker lines 232-240, one turn of the loop: the task runs for
\* the first time or its sleep ends, cleanup_old_jobs runs (it has no await)
\* and the task sleeps again.  A pass that raises in the query changes
\* nothing; one that raises in the commit has removed the directories and
\* rolls the deletes back.
CleanupPass(w, fault) ==
    /\ w \in DOMAIN workers
    /\ workers[w].at \in {"created", "sleep"}
    /\ ~workers[w].cancelling
    /\ workers[w].passes < MaxPasses
    /\ workers' = [workers EXCEPT ![w] = AfterPass(workers[w], fault)]
    /\ LET old_jobs == OldJobs(store, clock - CleanupHours) IN
        /\ store' = IF fault = "none" THEN Without(store, old_jobs) ELSE store
        /\ deleted' = IF fault = "none" THEN deleted \cup old_jobs ELSE deleted
        /\ dirs' = IF fault = "query" THEN dirs ELSE dirs \ old_jobs
        /\ logs' = IF fault = "query" THEN logs
                   ELSE [k \in DOMAIN logs \ old_jobs |-> logs[k]]
        /\ zips' = IF fault = "query" THEN zips
                   ELSE [k \in DOMAIN zips \ old_jobs |-> zips[k]]
    /\ sweeps' = IF fault # "none" THEN 0 ELSE IF sweeps < 2 THEN sweeps + 1 ELSE 2
    /\ imports' = 0
    /\ UNCHANGED <<clock, pc, start_time, result, ret, uploads, conn, th, response,
                   legacy, cleanup_task, executor_shutdown, Tools>>

\* the extractions the executor holds: handed to it and not yet returned
InFlight == {j \in DOMAIN pc : pc[j] \in {"submitted", "extracting"}}

\* shutdown lines 244-246: the cleanup task, if it is not done, is asked to
\* cancel, and the executor is shut down with wait=True: the call returns
\* when every extraction handed to the executor, running or still in its
\* queue, has returned in its thread.  shutdown has no await and is called
\* on the event loop, so no process_job resumes before it returns.
Shutdown ==
    /\ IF cleanup_task # Null /\ workers[cleanup_task].at # "done"
       THEN workers' = [workers EXCEPT ![cleanup_task].cancelling = TRUE]
       ELSE UNCHANGED workers
    /\ executor_shutdown' = TRUE
    /\ \E rs \in [InFlight -> ExtractionResults] :
          /\ pc' = [j \in DOMAIN pc |-> IF j \in InFlight THEN "extracted" ELSE pc[j]]
          /\ result' = [j \in DOMAIN result |-> IF j \in InFlight THEN rs[j] ELSE result[j]]
    /\ UNCHANGED <<store, clock, start_time, ret, dirs, logs, uploads,
                   sweeps, imports, zips, conn, th, response, legacy, cleanup_task, Tools, deleted>>

\* the CancelledError reaches the task where it waits: before its first
\* step, or in a sleep (lines 235-237 break, line 240 propagates); the task
\* is done either way
WorkerCancelled(w) ==
    /\ w \in DOMAIN workers
    /\ workers[w].at # "done"
    /\ workers[w].cancelling
    /\ workers' = [workers EXCEPT ![w].at = "done", ![w].cancelling = FALSE]
    /\ UNCHANGED <<store, clock, pc, start_time, result, ret, dirs, logs, uploads,
                   sweeps, imports, zips, conn, th, response, legacy, cleanup_task,
                   executor_shutdown, Tools, deleted>>

NextCleanup ==
    \/ StartCleanupTask
    \/ \E w \in TaskIds : \E fault \in PassFaults : CleanupPass(w, fault)
    \/ Shutdown
    \/ \E w \in TaskIds : WorkerCancelled(w)
    \/ Elapse

\* the event loop runs a task whose sleep has ended
FairCleanup ==
    \A w \in TaskIds : WF_vars(\E fault \in PassFaults : CleanupPass(w, fault))

SpecCleanup == Init /\ [][NextCleanup]_vars /\ FairCleanup

\* ------------------------------------------------- shutdown with work in hand
\* The worker pool with shutdown called at any moment.
NextDrain ==
    \/ NextPool
    \/ Shutdown

SpecDrain == InitPool /\ [][NextDrain]_vars

\* ------------------------------------------------- a pass over several jobs
\* The cleanup task on a store that holds one job more than this run
\* submits, all of them imported from the legacy file and dating from
\* time 0.
SweepIds == 0..MaxJobs

InitSweep ==
    /\ \E jobs_data \in [SweepIds -> UNION {LegacyRecords(k) : k \in SweepIds}] :
          /\ \A k \in SweepIds : jobs_data[k] \in LegacyRecords(k)
          /\ store = migrate_from_json(EmptyDb, jobs_data)
          /\ dirs = {k \in SweepIds : jobs_data[k].status = "completed"}
    /\ logs = [k \in dirs |-> LegacyLog(k)]
    /\ legacy = EmptyDb
    /\ clock = 0
    /\ pc = [j \in NewIds |-> "none"]
    /\ start_time = [j \in NewIds |-> Null]
    /\ result = [j \in NewIds |-> NoResult]
    /\ ret = [j \in NewIds |-> "none"]
    /\ uploads = {}
    /\ sweeps = 0
    /\ conn = EmptyConn
    /\ th = [t \in Threads |-> Idle]
    /\ response = NoResponse
    /\ zips = NoZips
    /\ imports = 0
    /\ cleanup_task = Null
    /\ workers = NoWorkers
    /\ executor_shutdown = FALSE
    /\ InitTools
    /\ deleted = {}

\* _cleanup_worker lines 232-235 with cleanup_old_jobs lines 206-218: one
\* turn of the loop in which shutil.rmtree raises for job f.  The exception
\* is caught and logged inside the for loop: f keeps its directory and its
\* row (db.delete(f) is not reached), the other old jobs are removed and the
\* pass ends as one that went through.
CleanupPassPartial(w, f) ==
    /\ w \in DOMAIN workers
    /\ workers[w].at \in {"created", "sleep"}
    /\ ~workers[w].cancelling
    /\ workers[w].passes < MaxPasses
    /\ f \in OldJobs(store, clock - CleanupHours)
    /\ f \in dirs
    /\ workers' = [workers EXCEPT ![w] = AfterPass(workers[w], "none")]
    /\ LET old_jobs == OldJobs(store, clock - CleanupHours) \ {f} IN
        /\ store' = Without(store, old_jobs)
        /\ deleted' = deleted \cup old_jobs
        /\ dirs' = dirs \ old_jobs
        /\ logs' = [k \in DOMAIN logs \ old_jobs |-> logs[k]]
        /\ zips' = [k \in DOMAIN zips \ old_jobs |-> zips[k]]
    /\ sweeps' = 0
    /\ imports' = 0
    /\ UNCHANGED <<clock, pc, start_time, result, ret, uploads, conn, th, response,
                   legacy, cleanup_task, executor_shutdown, Tools>>

NextSweep ==
    \/ StartCleanupTask
    \/ \E w \in TaskIds : \E fault \in PassFaults : CleanupPass(w, fault)
    \/ \E w \in TaskIds : \E f \in SweepIds : CleanupPassPartial(w, f)
    \/ Elapse

SpecSweep == InitSweep /\ [][NextSweep]_vars

\* ------------------------------------------------------------ the readers
\* GET /jobs/{job_id}, lines 35-49: 404 for no row, else the JobInfo, of
\* which detail keeps the status
get_job_status(db, job_id) ==
    IF get_job(db, job_id) = "not_found"
    THEN [job_id |-> job_id, status_code |-> 404, detail |-> "Job not found"]
    ELSE [job_id |-> job_id, status_code |-> 200,
          detail |-> StatusValue(get_job(db, job_id))]

\* GET /jobs/{job_id}/result, lines 64-92: 404 for no row; for a COMPLETED
\* job with an output_path the summary read from its extraction log, if the
\* log is there, and the download url
get_job_result(db, lg, job_id) ==
    IF get_job(db, job_id) = "not_found"
    THEN [job_id |-> job_id, status_code |-> 404, detail |-> "Job not found"]
    ELSE [job_id |-> job_id, status_code |-> 200,
          detail |-> IF get_job(db, job_id) = COMPLETED
                        /\ JobInfo(db[job_id]).output_path # Null
                     THEN IF job_id \in DOMAIN lg
                          THEN "result_summary, download_url" ELSE "download_url"
                     ELSE StatusValue(get_job(db, job_id))]

GetJobStatus(job_id) ==
    /\ response' = get_job_status(store, job_id)
    /\ listing' = << >>
    /\ UNCHANGED <<store, clock, pc, start_time, result, ret, dirs, logs, uploads,
                   sweeps, imports, zips, conn, th, legacy, Sched, executor_shutdown,
                   deleted, Factory, Zip, Upload, sending>>

\* GetJobResult with a fault seeded: the endpoint stores the path it serves
GetJobResultCaching(job_id) ==
    /\ response' = get_job_result(store, logs, job_id)
    /\ store' = IF job_id \in DOMAIN store /\ store[job_id].status # COMPLETED
                THEN Put(store, job_id, [store[job_id] EXCEPT !.output_path = OutputDir(job_id)])
                ELSE store
    /\ listing' = << >>
    /\ UNCHANGED <<clock, pc, start_time, result, ret, dirs, logs, uploads,
                   sweeps, imports, zips, conn, th, legacy, Sched, executor_shutdown,
                   deleted, Factory, Zip, Upload, sending>>

GetJobResult(job_id) ==
    /\ response' = get_job_result(store, logs, job_id)
    /\ listing' = << >>
    /\ UNCHANGED <<store, clock, pc, start_time, result, ret, dirs, logs, uploads,
                   sweeps, imports, zips, conn, th, legacy, Sched, executor_shutdown,
                   deleted, Factory, Zip, Upload, sending>>

\* the first n elements of a sequence, all of it when it has fewer
Take(seq, n) == SubSeq(seq, 1, IF n < Len(seq) THEN n ELSE Len(seq))

\* ORDER BY created_at DESC: the rows in an order in which created_at does
\* not increase; SQL leaves the order of rows with equal keys open
Orderings(db) ==
    {seq \in [1..Cardinality(DOMAIN db) -> DOMAIN db] :
        /\ \A a, b \in DOMAIN seq : a # b => seq[a] # seq[b]
        /\ \A a, b \in DOMAIN seq : a < b => db[seq[a]].created_at >= db[seq[b]].created_at}

\* JobManager.list_jobs, lines 95-97: the possible results, as the job ids
\* of the JobInfos in order.  LIMIT n keeps the first n rows; SQLite takes a
\* negative n as no limit.
list_jobs(db, limit) ==
    {IF limit < 0 THEN seq ELSE Take(seq, limit) : seq \in Orderings(db)}

\* The readers are given one submitted job beside the legacy job.
ReadIds == {1}
ReadJobIds == LegacyIds \cup ReadIds

\* limit as GET /jobs accepts it (le=200, no lower bound)
Limits == -1..(Cardinality(ReadJobIds) + 1)

\* Init, for the one job
InitRead ==
    /\ \E ids \in SUBSET LegacyIds :
         \E jobs_data \in [ids -> UNION {LegacyRecords(k) : k \in LegacyIds}] :
            /\ \A k \in ids : jobs_data[k] \in LegacyRecords(k)
            /\ store = migrate_from_json(EmptyDb, jobs_data)
            /\ dirs = {k \in ids : jobs_data[k].status = "completed"}
    /\ legacy = EmptyDb
    /\ logs = [k \in dirs |-> LegacyLog(k)]
    /\ clock = 0
    /\ pc = [j \in ReadIds |-> "none"]
    /\ start_time = [j \in ReadIds |-> Null]
    /\ result = [j \in ReadIds |-> NoResult]
    /\ ret = [j \in ReadIds |-> "none"]
    /\ uploads = {}
    /\ sweeps = 0
    /\ conn = EmptyConn
    /\ th = [t \in Threads |-> Idle]
    /\ response = NoResponse
    /\ zips = NoZips
    /\ imports = 0
    /\ cleanup_task = Null
    /\ workers = NoWorkers
    /\ executor_shutdown = FALSE
    /\ InitTools
    /\ deleted = {}

\* the status filter of GET /jobs: a status, or None for no filter
StatusFilters == {None} \cup JobStatus

\* GET /jobs, lines 108-130: list_jobs(limit), then the jobs of the wanted
\* status among them
ListJobs(limit, status) ==
    /\ \E jobs \in list_jobs(store, limit) :
          listing' = IF status = None THEN jobs
                     ELSE SelectSeq(jobs, LAMBDA k : JobInfo(store[k]).status = status)
    /\ response' = [job_id |-> Null, status_code |-> 200, detail |-> "jobs"]
    /\ UNCHANGED <<store, clock, pc, start_time, result, ret, dirs, logs, uploads,
                   sweeps, imports, zips, conn, th, legacy, Sched,
                   executor_shutdown, deleted, Factory, Zip, Upload, sending>>

\* the API serving readers beside the job lifecycle and the cleanup pass
NextRead ==
    \/ \E ftype \in FileTypes : CreateJob(ftype)
    \/ \E j \in ReadIds : ProcessStart(j)
    \/ \E j \in ReadIds : ExtractBegin(j)
    \/ \E j \in ReadIds : \E r \in QueueResults : ExtractEnd(j, r)
    \/ \E j \in ReadIds : ProcessFinish(j)
    \/ CleanupOldJobs
    \/ Elapse
    \/ \E job_id \in ReadJobIds : GetJobStatus(job_id)
    \/ \E job_id \in ReadJobIds : GetJobResult(job_id)
    \/ \E job_id \in ReadJobIds : \E zip_fault \in ZipFaults : Download(job_id, zip_fault)
    \/ \E limit \in Limits : \E status \in StatusFilters : ListJobs(limit, status)

SpecRead == InitRead /\ [][NextRead]_vars

\* ------------------------------------------------------ the extractor factory
\* An ExtractorFactory of its own (base.py line 151 builds one), on which
\* callers register classes under names in any order and ask for extractors.
RegNames == {"pdf", "docx", "xlsx", "markdown", "plain"}

\* the class each name is registered with
RegClass(name) ==
    CASE name = "pdf" -> "PDFExtractor"
      [] name = "docx" -> "DOCXExtractor"
      [] name = "xlsx" -> "XLSXExtractor"
      [] name = "markdown" -> "MarkdownExtractor"
      [] name = "plain" -> "PlainExtractor"

\* suffixes of the files asked for
Suffixes == {".pdf", ".PDF", ".docx", ".doc", ".wiz", ".xlsx", ".xls", ".md",
             ".mkd", ".txt", ".png", ""}

InitFactory ==
    /\ store = EmptyDb
    /\ dirs = {}
    /\ logs = [k \in {} |-> LegacyLog(k)]
    /\ legacy = EmptyDb
    /\ clock = 0
    /\ pc = [j \in NewIds |-> "none"]
    /\ start_time = [j \in NewIds |-> Null]
    /\ result = [j \in NewIds |-> NoResult]
    /\ ret = [j \in NewIds |-> "none"]
    /\ uploads = {}
    /\ sweeps = 0
    /\ conn = EmptyConn
    /\ th = [t \in Threads |-> Idle]
    /\ response = NoResponse
    /\ zips = NoZips
    /\ imports = 0
    /\ cleanup_task = Null
    /\ workers = NoWorkers
    /\ executor_shutdown = FALSE
    /\ deleted = {}
    /\ listing = << >>
    /\ extractors = << >>
    /\ created = NoCreated
    /\ tree = {}
    /\ archive = << >>
    /\ staging = << >>
    /\ reqs = << >>
    /\ sending = {}

\* ExtractorFactory.register, line 134: self._extractors[name] = cls.  A new
\* key goes to the end of the dict, a key that is there keeps its place.
Register(name, cls) ==
    /\ extractors' =
          IF \E i \in DOMAIN extractors : extractors[i].name = name
          THEN [i \in DOMAIN extractors |->
                   IF extractors[i].name = name
                   THEN [name |-> name, cls |-> cls] ELSE extractors[i]]
          ELSE Append(extractors, [name |-> name, cls |-> cls])
    /\ UNCHANGED <<store, clock, pc, start_time, result, ret, dirs, logs, uploads,
                   sweeps, imports, zips, conn, th, response, legacy, Sched,
                   executor_shutdown, listing, deleted, created, Zip, Upload, sending>>

\* a caller asks the factory for an extractor for a file with this suffix
CreateExtractor(suffix) ==
    /\ created' = [file |-> suffix, cls |-> create_extractor_in(extractors, suffix)]
    /\ UNCHANGED <<store, clock, pc, start_time, result, ret, dirs, logs, uploads,
                   sweeps, imports, zips, conn, th, response, legacy, Sched,
                   executor_shutdown, listing, deleted, extractors, Zip, Upload, sending>>

NextFactory ==
    \/ \E name \in RegNames : Register(name, RegClass(name))
    \/ \E suffix \in Suffixes : CreateExtractor(suffix)

SpecFactory == InitFactory /\ [][NextFactory]_vars

\* -------------------------------------------------- the uploads directory
\* Settings.uploads_cleanup_hours
UploadsCleanupHours == 1

\* FileManager.cleanup_uploads_dir, lines 179-201, by the files it leaves:
\* those whose modification time is not before the cutoff.  Nothing in the
\* program calls it: _cleanup_worker calls cleanup_old_jobs only, and no
\* action of this module applies it.
cleanup_uploads_dir(files, st_mtime, current_time, older_than_hours) ==
    LET cutoff_time == current_time - older_than_hours IN
    {file_path \in files : ~(st_mtime[file_path] < cutoff_time)}

\* ------------------------------------------------------ the results archive
\* The output directories of two jobs, file by file.  A path is the sequence
\* of its parts; an entry of the tree is a file or a directory.
ZipIds == {0, 1}

\* self.outputs_dir / job_id
JobOutputDir(job_id) == <<"outputs", ToString(job_id)>>

\* f"{job_id}_results.zip"
ZipName(job_id) == ToString(job_id) \o "_results.zip"

File(path) == [path |-> path, is_file |-> TRUE]
Dir(path) == [path |-> path, is_file |-> FALSE]

\* what an extraction can leave in a job's directory: the text, the log,
\* and images/ with or without an image in it
Contents(job_id) ==
    LET d == JobOutputDir(job_id) IN
    { texts \cup images :
        texts \in SUBSET {File(d \o <<"content.txt">>), File(d \o <<"extraction_log.json">>)},
        images \in {{}, {Dir(d \o <<"images">>)},
                    {Dir(d \o <<"images">>), File(d \o <<"images", "page_1_img_1.png">>)}} }

\* each job has no directory, or its directory with some contents
InitZip ==
    /\ \E present \in SUBSET ZipIds :
          \E contents \in [present -> UNION {Contents(k) : k \in ZipIds}] :
             /\ \A k \in present : contents[k] \in Contents(k)
             /\ tree = UNION {{Dir(JobOutputDir(k))} \cup contents[k] : k \in present}
    /\ archive = << >>
    /\ staging = << >>
    /\ reqs = << >>
    /\ sending = {}
    /\ store = EmptyDb
    /\ dirs = {}
    /\ logs = [k \in {} |-> LegacyLog(k)]
    /\ legacy = EmptyDb
    /\ clock = 0
    /\ pc = [j \in NewIds |-> "none"]
    /\ start_time = [j \in NewIds |-> Null]
    /\ result = [j \in NewIds |-> NoResult]
    /\ ret = [j \in NewIds |-> "none"]
    /\ uploads = {}
    /\ sweeps = 0
    /\ conn = EmptyConn
    /\ th = [t \in Threads |-> Idle]
    /\ response = NoResponse
    /\ zips = NoZips
    /\ imports = 0
    /\ cleanup_task = Null
    /\ workers = NoWorkers
    /\ executor_shutdown = FALSE
    /\ deleted = {}
    /\ listing = << >>
    /\ extractors = Registry
    /\ created = NoCreated

\* path is below base
IsUnder(path, base) ==
    Len(path) > Len(base) /\ SubSeq(path, 1, Len(base)) = base

\* job_output_dir.rglob("*"): every entry below the directory
rglob(fs, base) == {e \in fs : IsUnder(e.path, base)}

\* file_path.relative_to(job_output_dir), as the archive stores it
relative_to(path, base) == SubSeq(path, Len(base) + 1, Len(path))

\* the last part of a path
Name(path) == path[Len(path)]

\* ArchiveEntries with a fault seeded: only the last part of a path is kept
ArchiveEntriesFlat(fs, job_id) ==
    LET job_output_dir == JobOutputDir(job_id) IN
    { <<Name(e.path)>> :
        e \in {f \in rglob(fs, job_output_dir) : f.is_file /\ Name(f.path) # ZipName(job_id)} }

\* create_result_zip lines 142-146: the names written to the archive
ArchiveEntries(fs, job_id) ==
    LET job_output_dir == JobOutputDir(job_id) IN
    { relative_to(e.path, job_output_dir) :
        e \in {f \in rglob(fs, job_output_dir) : f.is_file /\ Name(f.path) # ZipName(job_id)} }

\* FileManager.create_result_zip, lines 129-153.  No directory: None.  The
\* archive file is opened for writing inside the directory (it is created,
\* or emptied when it is there), the files are added and its path is
\* returned.  An exception while it is opened leaves the directory as it
\* was; one while it is written leaves an archive with the entries written
\* so far; both return None.
CreateResultZip(job_id, zip_fault) ==
    LET job_output_dir == JobOutputDir(job_id)
        zip_path == job_output_dir \o <<ZipName(job_id)>>
    IN  /\ IF Dir(job_output_dir) \notin tree
           THEN /\ archive' = Put(archive, job_id, [ret |-> NoPath, entries |-> {}])
                /\ tree' = tree
           ELSE IF zip_fault = "open"
           THEN /\ archive' = Put(archive, job_id,
                                  [ret |-> NoPath,
                                   entries |-> IF job_id \in DOMAIN archive
                                               THEN archive[job_id].entries ELSE {}])
                /\ tree' = tree
           ELSE IF zip_fault = "write"
           THEN /\ \E written \in SUBSET ArchiveEntries(tree, job_id) :
                      /\ archive' = Put(archive, job_id, [ret |-> NoPath, entries |-> written])
                /\ tree' = tree \cup {File(zip_path)}
           ELSE /\ archive' = Put(archive, job_id,
                                  [ret |-> zip_path,
                                   entries |-> ArchiveEntries(tree \cup {File(zip_path)}, job_id)])
                /\ tree' = tree \cup {File(zip_path)}
        /\ UNCHANGED <<store, clock, pc, start_time, result, ret, dirs, logs, uploads,
                       sweeps, imports, zips, conn, th, response, legacy, Sched,
                       executor_shutdown, listing, deleted, Factory, Upload, sending>>

NextZip ==
    \E job_id \in ZipIds : \E zip_fault \in ZipFaults : CreateResultZip(job_id, zip_fault)

SpecZip == InitZip /\ [][NextZip]_vars

\* ------------------------------------------------------ uploads, file by file
\* POST /extract request by request, with uploads/ kept file by file.  A
\* filename is the sequence of its parts: words, ".", "_" and characters
\* that sanitize_filename replaces (" ").  time.time() is read to the
\* second: two requests read the same time, or time has passed between them.
UploadReqs == {1, 2}

\* Settings.max_file_size_bytes, in units of its own size
max_file_size == 1

Filenames ==
    {<<"report", ".", "pdf">>, <<"my", " ", "report", ".", "pdf">>,
     <<"my", "_", "_", "report", ".", "pdf">>, <<"notes", ".", "txt">>,
     <<".", "pdf">>, << >>}


\* an empty file; a file with content holds the id of the request that
\* wrote it
Empty == 0

NoReq == [at |-> "none", filename |-> << >>, size |-> Null, length |-> 0,
          file_path |-> << >>, job_id |-> Null, status_code |-> Null, read |-> << >>]

\* re.sub(r"[^\w\-_\.]", "_", filename), part by part
Substituted(filename) ==
    [i \in 1..Len(filename) |-> IF filename[i] = " " THEN "_" ELSE filename[i]]

\* re.sub(r"_+", "_", filename)
RECURSIVE Squeezed(_)
Squeezed(filename) ==
    IF Len(filename) < 2 THEN filename
    ELSE IF filename[1] = "_" /\ filename[2] = "_" THEN Squeezed(Tail(filename))
    ELSE <<filename[1]>> \o Squeezed(Tail(filename))

\* FileManager.sanitize_filename, lines 32-43
sanitize_filename(filename) ==
    LET cleaned == Squeezed(Substituted(filename)) IN
    IF cleaned = << >> \/ cleaned[1] = "." THEN <<"document">> \o cleaned ELSE cleaned

\* the place of the last "." of a name, 0 when it has none
LastDot(name) ==
    LET dots == {i \in 1..Len(name) : name[i] = "."} IN
    IF dots = {} THEN 0 ELSE CHOOSE i \in dots : \A k \in dots : k <= i

\* save_upload_file lines 85-87: the name and the extension are split at
\* the last ".", and the time in seconds goes between them
unique_filename(safe_filename, now) ==
    LET dot == LastDot(safe_filename)
        name == IF dot = 0 THEN safe_filename ELSE SubSeq(safe_filename, 1, dot - 1)
        ext == IF dot = 0 THEN << >> ELSE SubSeq(safe_filename, dot + 1, Len(safe_filename))
    IN  IF ext # << >> THEN name \o <<"_", ToString(now), ".">> \o ext
        ELSE name \o <<"_", ToString(now)>>

\* the parts of a name as one string
RECURSIVE Joined(_)
Joined(name) == IF name = << >> THEN "" ELSE Head(name) \o Joined(Tail(name))

\* file_path.suffix: from the last "." on, "" when there is none or the
\* name begins or ends with it
Suffix(file_path) ==
    LET dot == LastDot(file_path) IN
    IF dot <= 1 \/ dot = Len(file_path) THEN ""
    ELSE Joined(SubSeq(file_path, dot, Len(file_path)))

\* extractor_factory.get_supported_extensions(), base.py lines 143-148
supported_extensions ==
    UNION {ExtractorClass(Registry[i].cls).exts : i \in 1..Len(Registry)}

\* FileManager.validate_file_type, lines 45-66; magic raises on a file
\* that is not there
validate_file_type(files, file_path) ==
    LET extension == Lower(Suffix(file_path)) IN
    IF extension \notin supported_extensions
    THEN [is_valid |-> FALSE, detail |-> "Unsupported file extension"]
    ELSE IF file_path \notin DOMAIN files
    THEN [is_valid |-> FALSE, detail |-> "File validation failed"]
    ELSE IF create_extractor(Suffix(file_path)) = None
    THEN [is_valid |-> FALSE, detail |-> "No suitable extractor found"]
    ELSE [is_valid |-> TRUE, detail |-> guess_type(Suffix(file_path))]

\* the request is answered with an HTTPException
Rejected(req, status_code) ==
    [req EXCEPT !.at = "rejected", !.status_code = status_code]

InitUpload ==
    /\ store = EmptyDb
    /\ dirs = {}
    /\ logs = [k \in {} |-> LegacyLog(k)]
    /\ legacy = EmptyDb
    /\ clock = 0
    /\ pc = [j \in UploadReqs |-> "none"]
    /\ start_time = [j \in UploadReqs |-> Null]
    /\ result = [j \in UploadReqs |-> NoResult]
    /\ ret = [j \in UploadReqs |-> "none"]
    /\ uploads = {}
    /\ sweeps = 0
    /\ conn = EmptyConn
    /\ th = [t \in Threads |-> Idle]
    /\ response = NoResponse
    /\ zips = NoZips
    /\ imports = 0
    /\ cleanup_task = Null
    /\ workers = NoWorkers
    /\ executor_shutdown = FALSE
    /\ deleted = {}
    /\ listing = << >>
    /\ extractors = Registry
    /\ created = NoCreated
    /\ tree = {}
    /\ archive = << >>
    /\ staging = << >>
    /\ reqs = [r \in UploadReqs |-> NoReq]
    /\ sending = {}

\* what no step of a request touches
Outside == <<dirs, logs, zips, conn, th, response, legacy, Sched, executor_shutdown,
             listing, deleted, Factory, Zip, sending, clock, start_time, result, ret>>

\* save_upload_file lines 69-89, up to the first await: no filename and a
\* declared size over the limit are rejected, otherwise the path is made
\* from the sanitized name and the time
UploadBegin(r, filename, size, length) ==
    /\ reqs[r].at = "none"
    /\ LET req == [reqs[r] EXCEPT !.filename = filename, !.size = size, !.length = length]
       IN  reqs' = [reqs EXCEPT ![r] =
                IF filename = << >> THEN Rejected(req, 400)
                ELSE IF size # Null /\ size > max_file_size THEN Rejected(req, 413)
                ELSE [req EXCEPT !.at = "open",
                                 !.file_path = unique_filename(sanitize_filename(filename),
                                                               clock)]]
    /\ sweeps' = 0
    /\ imports' = 0
    /\ UNCHANGED <<store, pc, uploads, staging, Outside>>

\* line 93, aiofiles.open(file_path, "wb"): the file is created, or
\* emptied when it is there
UploadOpen(r) ==
    /\ reqs[r].at = "open"
    /\ staging' = Put(staging, reqs[r].file_path, Empty)
    /\ reqs' = [reqs EXCEPT ![r].at = "read"]
    /\ sweeps' = 0
    /\ imports' = 0
    /\ UNCHANGED <<store, pc, uploads, Outside>>

\* lines 94-101: the content is read and its length checked; the
\* HTTPException leaves the block, which closes the file, and is raised
\* again as it is by line 114
UploadRead(r) ==
    /\ reqs[r].at = "read"
    /\ reqs' = [reqs EXCEPT ![r] =
            IF reqs[r].length > max_file_size THEN Rejected(reqs[r], 413)
            ELSE [reqs[r] EXCEPT !.at = "write"]]
    /\ sweeps' = 0
    /\ imports' = 0
    /\ UNCHANGED <<store, pc, uploads, staging, Outside>>


\* line 103, f.write(content).  An exception of it is taken by lines
\* 117-126: the file is removed when it is there, and the answer is 500.
UploadWrite(r, fault) ==
    /\ reqs[r].at = "write"
    /\ LET file_path == reqs[r].file_path IN
        IF fault = "none"
        THEN /\ staging' = IF file_path \in DOMAIN staging
                           THEN [staging EXCEPT ![file_path] = r] ELSE staging
             /\ reqs' = [reqs EXCEPT ![r].at = "saved"]
        ELSE /\ staging' = [q \in DOMAIN staging \ {file_path} |-> staging[q]]
             /\ reqs' = [reqs EXCEPT ![r] = Rejected(reqs[r], 500)]
    /\ sweeps' = 0
    /\ imports' = 0
    /\ UNCHANGED <<store, pc, uploads, Outside>>

\* file.size or file_path.stat().st_size
FileSize(files, req) ==
    IF req.size # Null THEN req.size
    ELSE IF files[req.file_path] = Empty THEN 0
    ELSE reqs[files[req.file_path]].length

\* UploadSubmit with a fault seeded: the job is created before the file is
\* validated
UploadSubmitEager(r) ==
    /\ reqs[r].at = "saved"
    /\ LET file_path == reqs[r].file_path
           valid == validate_file_type(staging, file_path)
           j == FreshId
       IN  /\ store' = Put(store, j, NewJob(reqs[r].filename, reqs[r].length,
                                            Lower(Suffix(file_path)), clock))
           /\ pc' = [pc EXCEPT ![j] = "queued"]
           /\ uploads' = uploads \cup {j}
           /\ IF valid.is_valid
              THEN /\ reqs' = [reqs EXCEPT ![r].at = "accepted", ![r].job_id = j,
                                           ![r].status_code = 200]
                   /\ staging' = staging
              ELSE /\ reqs' = [reqs EXCEPT ![r] = Rejected(reqs[r], 400)]
                   /\ staging' = [q \in DOMAIN staging \ {file_path} |-> staging[q]]
    /\ sweeps' = 0
    /\ imports' = 0
    /\ UNCHANGED Outside

\* save_upload_file lines 105-112 and extract_document lines 35-52, which
\* have no await between them: the saved file is validated; an invalid one
\* is removed and answered 400 (500 when it is not there to be removed);
\* for a valid one create_job inserts the PENDING row and process_job is
\* queued with the job id and the path.
UploadSubmit(r) ==
    /\ reqs[r].at = "saved"
    /\ LET file_path == reqs[r].file_path
           valid == validate_file_type(staging, file_path)
           j == FreshId
       IN  IF valid.is_valid
           THEN /\ store' = Put(store, j, NewJob(reqs[r].filename, FileSize(staging, reqs[r]),
                                                 Lower(Suffix(file_path)), clock))
                /\ pc' = [pc EXCEPT ![j] = "queued"]
                /\ uploads' = uploads \cup {j}
                /\ reqs' = [reqs EXCEPT ![r].at = "accepted", ![r].job_id = j,
                                        ![r].status_code = 200]
                /\ staging' = staging
           ELSE /\ reqs' = [reqs EXCEPT ![r] =
                                Rejected(reqs[r], IF file_path \in DOMAIN staging
                                                  THEN 400 ELSE 500)]
                /\ staging' = [q \in DOMAIN staging \ {file_path} |-> staging[q]]
                /\ UNCHANGED <<store, pc, uploads>>
    /\ sweeps' = 0
    /\ imports' = 0
    /\ UNCHANGED Outside

\* the request that job j came from
RequestOf(j) == CHOOSE r \in DOMAIN reqs : reqs[r].job_id = j

\* extractor.extract(file_path, output_dir) in its worker thread: it reads
\* what the path holds at that moment.  A file that is missing or empty
\* makes the extractor return a failure, any content a success.
ExtractFile(j) ==
    /\ pc[j] = "extracting"
    /\ LET r == RequestOf(j)
           file_path == reqs[r].file_path
           content == IF file_path \in DOMAIN staging THEN staging[file_path] ELSE Null
       IN  /\ reqs' = [reqs EXCEPT ![r].read = <<content>>]
           /\ result' = [result EXCEPT ![j] =
                 IF content \in {Null, Empty}
                 THEN [raised |-> FALSE, success |-> FALSE, text |-> 0, images |-> 0,
                       error |-> "corrupt file"]
                 ELSE [raised |-> FALSE, success |-> TRUE, text |-> Null,
                       images |-> MaxLen, error |-> None]]
    /\ pc' = [pc EXCEPT ![j] = "extracted"]
    /\ sweeps' = 0
    /\ imports' = 0
    /\ UNCHANGED <<store, clock, start_time, ret, dirs, logs, uploads, zips, conn, th,
                   response, legacy, Sched, executor_shutdown, listing, deleted, Factory,
                   Zip, staging, sending>>

\* process_job lines 130-189 after the await, as ProcessFinish, with the
\* upload removed by its path (lines 178-182): file_path.unlink() when the
\* path exists, whatever request wrote the file last
FinishUpload(j) ==
    /\ pc[j] = "extracted"
    /\ LET extractor == IF j \in DOMAIN store
                        THEN create_extractor(store[j].file_type) ELSE None
           fin == Finished(store, logs, j, result[j], extractor, start_time[j], clock)
       IN  /\ store' = fin[1]
           /\ logs' = fin[2]
           /\ ret' = [ret EXCEPT ![j] =
                        IF j \notin DOMAIN fin[1] THEN "None"
                        ELSE IF fin[1][j].status = COMPLETED THEN "True" ELSE "False"]
    /\ uploads' = uploads \ {j}
    /\ staging' = [q \in DOMAIN staging \ {reqs[RequestOf(j)].file_path} |-> staging[q]]
    /\ pc' = [pc EXCEPT ![j] = "returned"]
    /\ sweeps' = 0
    /\ imports' = 0
    /\ UNCHANGED <<clock, start_time, result, dirs, zips, conn, th, response, legacy,
                   Sched, executor_shutdown, listing, deleted, Factory, Zip, reqs, sending>>

NextUpload ==
    \/ \E r \in UploadReqs : \E filename \in Filenames : \E length \in {max_file_size, max_file_size + 1} :
          \E size \in {Null, length} : UploadBegin(r, filename, size, length)
    \/ \E r \in UploadReqs : UploadOpen(r)
    \/ \E r \in UploadReqs : UploadRead(r)
    \/ \E r \in UploadReqs : \E fault \in {"none", "write"} : UploadWrite(r, fault)
    \/ \E r \in UploadReqs : UploadSubmit(r)
    \/ \E j \in UploadReqs : ProcessStart(j)
    \/ \E j \in UploadReqs : ExtractBegin(j)
    \/ \E j \in UploadReqs : ExtractFile(j)
    \/ \E j \in UploadReqs : FinishUpload(j)
    \/ Elapse

SpecUpload == InitUpload /\ [][NextUpload]_vars

\* ================================================================== claims
Terminal == {COMPLETED, FAILED}

\* the cutoff a cleanup pass run now would use
Cutoff == clock - CleanupHours

\* the step is a cleanup pass: no other action leaves sweeps positive
IsCleanupStep == sweeps' > 0

\* job j's process_job resumes after the extraction in this step
Finishes(j) == pc[j] = "extracted" /\ pc'[j] = "returned"

\* ---- C1
\* What a reader gets for a job changes only along PENDING -> PROCESSING ->
\* COMPLETED or FAILED: it appears as PENDING when created, never moves
\* backwards, never skips PROCESSING, leaves no terminal status except by
\* being removed by a cleanup pass, and never comes back once removed.
C1_Step(j) ==
    LET a == get_job(store, j)
        b == get_job(store', j)
    IN  \/ a = b
        \/ a = "not_found" /\ b = PENDING /\ j \in NewIds /\ pc[j] = "none"
        \/ a = PENDING /\ b = PROCESSING
        \/ a = PROCESSING /\ b \in Terminal
        \/ a # "not_found" /\ b = "not_found" /\ IsCleanupStep

C1_StatusOrder == [][\A j \in JobIds : C1_Step(j)]_vars

C1_Witness ==
    \E j \in NewIds : pc[j] = "returned" /\ get_job(store, j) \in Terminal

C3_SuccessStep(j) ==
    (Finishes(j) /\ ~result[j].raised /\ result[j].success) =>
        /\ j \in DOMAIN store'
        /\ store'[j].status = COMPLETED
        /\ store'[j].output_path = OutputDir(j)
        /\ store'[j].text_length = LenOrZero(result[j].text)
        /\ store'[j].images_count = LenOrZero(result[j].images)
        /\ store'[j].extractor_used # None
        /\ j \in dirs' /\ j \in DOMAIN logs'
        /\ logs'[j].text_length = LenOrZero(result[j].text)
        /\ logs'[j].images_count = LenOrZero(result[j].images)

C3_SuccessCompletes == [][\A j \in NewIds : C3_SuccessStep(j)]_vars

C3_Witness ==
    \E j \in NewIds :
        /\ pc[j] = "returned" /\ result[j].success /\ result[j].images > 0
        /\ j \in DOMAIN store /\ store[j].status = COMPLETED

\* a message that says something: neither null nor the empty string
Populated(msg) == msg # None /\ msg # ""

\* ---- C4
\* When process_job resumes after the extractor raised or returned
\* success=false, the job is FAILED with error_message populated and
\* output_path unset (and was never COMPLETED on the way).
C4_FailureStep(j) ==
    (Finishes(j) /\ (result[j].raised \/ ~result[j].success)) =>
        /\ j \in DOMAIN store'
        /\ store[j].status = PROCESSING
        /\ store'[j].status = FAILED
        /\ Populated(store'[j].error_message)
        /\ store'[j].output_path = Null

C4_FailureFails == [][\A j \in NewIds : C4_FailureStep(j)]_vars

\* ---- C5
\* Every FAILED job carries a non-empty error_message.
C5_FailedHasMessage ==
    \A j \in DOMAIN store :
        store[j].status = FAILED => Populated(store[j].error_message)

\* the claim's expiry predicate
Expired(job, cutoff) ==
    \/ job.status = COMPLETED /\ job.completed_at # Null /\ job.completed_at < cutoff
    \/ job.status = PENDING /\ job.created_at < cutoff

\* ---- C7
\* A cleanup pass removes from the store all and only the jobs that are
\* COMPLETED with completed_at before the cutoff or PENDING with created_at
\* before the cutoff, and leaves every other record as it was.
C7_CleanupExact ==
    [][IsCleanupStep =>
         /\ DOMAIN store' = {j \in DOMAIN store : ~Expired(store[j], Cutoff)}
         /\ \A j \in DOMAIN store' : store'[j] = store[j]]_vars

C7_Witness ==
    /\ sweeps > 0
    /\ \E j \in NewIds : pc[j] # "none" /\ j \notin DOMAIN store
    /\ \E j \in DOMAIN store : store[j].status \in {PROCESSING, FAILED}

\* ---- C8
\* A cleanup pass that directly follows another one, with nothing in
\* between, deletes no record and removes no directory.
C8_CleanupIdempotent ==
    [][(sweeps > 0 /\ IsCleanupStep) =>
         (store' = store /\ dirs' = dirs /\ logs' = logs)]_vars

C8_Witness ==
    /\ sweeps = 2
    /\ \E j \in JobIds : j \notin DOMAIN store /\ (j \in LegacyIds \/ pc[j] # "none")

\* a job in PROCESSING that no task is working on
Stuck(j) ==
    /\ j \in DOMAIN store /\ store[j].status = PROCESSING
    /\ j \in NewIds => pc[j] = "returned"

\* ---- C9
\* A cleanup pass removes the record of every job stuck in PROCESSING that
\* is older than the retention window.
C9_StuckReclaimed ==
    [][IsCleanupStep =>
         \A j \in JobIds :
            (Stuck(j) /\ store[j].started_at < Cutoff) => j \notin DOMAIN store']_vars

\* ---- C10
\* A cleanup pass removes the record and the output directory of every
\* COMPLETED or FAILED job whose completion is older than the retention
\* window.
C10_TerminalReclaimed ==
    [][IsCleanupStep =>
         \A j \in DOMAIN store :
            (store[j].status \in Terminal /\ store[j].completed_at # Null
                /\ store[j].completed_at < Cutoff)
            => (j \notin DOMAIN store' /\ j \notin dirs')]_vars

\* ---- C6
\* No update is lost when the store is called concurrently: once a
\* create_job call has returned its job is in the store, and once the
\* PENDING -> PROCESSING session of a job has run the job is PROCESSING or
\* later, whatever other sessions committed or rolled back meanwhile.
C6_NoLostUpdate ==
    \A t \in Threads :
        th[t].at = "done" =>
            /\ th[t].op = "create" => CreatedId(t) \in DOMAIN store
            /\ th[t].op = "start" =>
                  (t \in DOMAIN store /\ store[t].status \in {PROCESSING, COMPLETED, FAILED})

\* ---- C11
\* Whenever process_job has returned, by whatever path, the uploaded input
\* file of its job is no longer on disk.
C11_UploadRemoved ==
    \A j \in DOMAIN pc : pc[j] = "returned" => j \notin uploads

\* what get_job returns for a job as create_job left it: PENDING, the
\* filename, size and type POST /extract passed, created_at set and the
\* other four fields unset
PendingAsCreated(db, j) ==
    /\ j \in DOMAIN db
    /\ LET info == JobInfo(db[j]) IN
        /\ info.status = PENDING
        /\ info.file_type \in FileTypes
        /\ info.filename = Filename(info.file_type)
        /\ info.file_size = 1200
        /\ info.created_at # Null
        /\ info.started_at = Null /\ info.completed_at = Null
        /\ info.error_message = None /\ info.output_path = Null

\* ---- C12 (as stated)
\* From create_job's return until the first step of the job's process_job,
\* get_job returns the job as created.
C12_PendingUntilProcessed ==
    \A j \in DOMAIN pc : pc[j] = "queued" => PendingAsCreated(store, j)

\* ---- C12 (amended)
\* From create_job's return until the first step of the job's process_job,
\* get_job returns the job as created, unless a cleanup pass has removed
\* the record because its created_at was before the cutoff; then get_job
\* returns nothing.
C12_Step(j) ==
    pc'[j] = "queued" =>
        \/ PendingAsCreated(store', j)
        \/ /\ j \notin DOMAIN store'
           /\ pc[j] = "queued"
           /\ \/ j \notin DOMAIN store
              \/ IsCleanupStep /\ Expired(store[j], Cutoff)

C12_PendingUntilProcessedOrSwept == [][\A j \in DOMAIN pc : C12_Step(j)]_vars

C12_Witness ==
    \E j \in DOMAIN pc :
        /\ pc[j] = "queued" /\ PendingAsCreated(store, j)
        /\ store[j].created_at < clock /\ sweeps > 0

\* ---- C13
\* A download request for an id that is not in the store is answered 404,
\* one for a PENDING, PROCESSING or FAILED job is answered 400, and neither
\* creates or serves an archive.
C13_Step ==
    (response' # response \/ zips' # zips) =>
        LET status == get_job(store, response'.job_id) IN
        /\ status = "not_found" =>
              (response'.status_code = 404 /\ zips' = zips)
        /\ status \in {PENDING, PROCESSING, FAILED} =>
              (response'.status_code = 400 /\ zips' = zips)

C13_NoArchiveUnlessCompleted == [][C13_Step]_vars

C13_Witness ==
    /\ response.status_code = 400
    /\ get_job(store, response.job_id) = FAILED
    /\ response.job_id \notin DOMAIN zips
    /\ DOMAIN zips # {}

\* the step is an import: no other action leaves imports positive
IsImportStep == imports' > 0

\* ---- C14
\* An import leaves every record that is already in the store as it is,
\* whatever the file says about its id, and adds one record for every id
\* of the file that is not in the store; an import that directly follows
\* another import of the same file changes nothing.
C14_ImportIdempotent ==
    [][IsImportStep =>
         /\ \A k \in DOMAIN store : k \in DOMAIN store' /\ store'[k] = store[k]
         /\ DOMAIN store' = DOMAIN store \cup DOMAIN legacy
         /\ \A k \in DOMAIN legacy \ DOMAIN store :
               store'[k].status = StatusOfValue(legacy[k].status)
         /\ imports > 0 => store' = store]_vars

C14_Witness ==
    /\ imports = 2
    /\ DOMAIN store = FileIds
    /\ \E k \in DOMAIN legacy : store[k].status # StatusOfValue(legacy[k].status)

\* the extractor.extract calls that are executing
Busy == Cardinality({k \in DOMAIN pc : pc[k] = "extracting"})

\* ---- C15
\* At every moment at most max_workers extractor.extract calls are
\* executing, however many jobs have been submitted.
C15_BoundedPool == Busy <= MaxWorkers

C15_Witness ==
    /\ Busy = MaxWorkers
    /\ \E j \in DOMAIN pc : pc[j] = "submitted"

\* ---- C16 (as stated)
\* Every job submitted eventually is COMPLETED or FAILED in the store, also
\* when more jobs are submitted than there are workers.
C16_EveryJobEnds ==
    \A j \in PoolIds :
        (pc[j] = "queued") ~> (j \in DOMAIN store /\ store[j].status \in Terminal)

\* ---- C16 (amended)
\* Every job submitted eventually is COMPLETED or FAILED in the store, also
\* when more jobs are submitted than there are workers, unless a cleanup
\* pass removed its PENDING record before its process_job took its first
\* step; then process_job returns and the job is gone.  A job that has
\* left PENDING is in the store until it is COMPLETED or FAILED.
C16_EveryJobEndsOrExpired ==
    /\ \A j \in PoolIds :
          (pc[j] = "queued") ~>
              \/ j \in DOMAIN store /\ store[j].status \in Terminal
              \/ pc[j] = "returned" /\ ret[j] = "False" /\ j \notin DOMAIN store
    /\ [](\A j \in PoolIds :
              pc[j] \in {"submitted", "extracting", "extracted"} =>
                  (j \in DOMAIN store /\ store[j].status = PROCESSING))

C16_Witness ==
    /\ Cardinality(PoolIds) > MaxWorkers
    /\ clock > 0
    /\ \A j \in PoolIds :
          /\ pc[j] = "returned" /\ result[j] # NoResult
          /\ j \in DOMAIN store /\ store[j].status \in Terminal

\* ---- C17
\* A failing extraction stays in the job's record.  When no extractor is
\* registered for the file, none is invoked, the job is FAILED with a
\* message that names the file type and process_job returns.  When the
\* extractor raises, its worker is free again, the job is FAILED with the
\* exception's message and process_job returns.
C17_Step(j) ==
    /\ pc'[j] = "extracting" =>
          (j \in DOMAIN store /\ create_extractor(store[j].file_type) # None)
    /\ (pc[j] = "queued" /\ pc'[j] = "returned" /\ j \in DOMAIN store) =>
          /\ create_extractor(store[j].file_type) = None
          /\ store'[j].status = FAILED
          /\ store'[j].error_message =
                "No extractor found for file type: " \o store[j].file_type
          /\ ret'[j] = "False"
          /\ result'[j] = NoResult
          /\ Busy' = Busy
    /\ (pc[j] = "extracting" /\ pc'[j] = "extracted") => Busy' = Busy - 1
    /\ (Finishes(j) /\ result[j].raised) =>
          /\ store'[j].status = FAILED
          /\ store'[j].error_message = result[j].error
          /\ ret'[j] = "False"

C17_FailuresContained == [][\A j \in PoolIds : C17_Step(j)]_vars

C17_Witness ==
    \E a, b \in PoolIds :
        /\ pc[a] = "returned" /\ store[a].status = FAILED
        /\ store[a].file_type = ".txt"
        /\ pc[b] = "returned" /\ store[b].status = COMPLETED

\* ---- C18
\* The extractor is invoked at most once for a job: once its call has been
\* taken by a worker, the job is never queued, submitted or started on a
\* worker again.  A FAILED record is never processed again: as long as it
\* is in the store it stays as it is.
C18_Step(j) ==
    /\ (j \in DOMAIN pc /\ pc[j] \in {"extracting", "extracted", "returned"}) =>
          /\ pc'[j] \notin {"none", "queued", "submitted"}
          /\ pc'[j] = "extracting" => pc[j] = "extracting"
    /\ (j \in DOMAIN store /\ store[j].status = FAILED /\ j \in DOMAIN store') =>
          store'[j] = store[j]

C18_NoRetry == [][\A j \in JobIds : C18_Step(j)]_vars

C18_Witness ==
    \E j \in NewIds :
        /\ pc[j] = "returned" /\ result[j] # NoResult
        /\ j \in DOMAIN store /\ store[j].status = FAILED
        /\ store[j].completed_at < clock
        /\ sweeps > 0

\* w's loop takes a turn in this step, and its cleanup pass raises
PassStep(w) ==
    w \in DOMAIN workers /\ workers'[w].passes = workers[w].passes + 1

PassRaises(w) == PassStep(w) /\ workers'[w].failed = workers[w].failed + 1

\* ---- C19
\* A cleanup pass that raises does not end the worker: it then sleeps 300
\* seconds, where after a pass that went through it sleeps 3600, and unless
\* it is cancelled meanwhile it runs another pass.  A worker ends only by
\* being cancelled.
C19_Step(w) ==
    /\ PassRaises(w) =>
          (workers'[w].at = "sleep" /\ workers'[w].delay = 300)
    /\ (PassStep(w) /\ ~PassRaises(w)) =>
          (workers'[w].at = "sleep" /\ workers'[w].delay = 3600)
    /\ (w \in DOMAIN workers /\ workers[w].at # "done" /\ workers'[w].at = "done") =>
          workers[w].cancelling

C19_WorkerSurvives ==
    /\ [][\A w \in TaskIds : C19_Step(w)]_vars
    /\ \A w \in TaskIds : \A n \in 1..(MaxPasses - 1) :
          (w \in DOMAIN workers /\ workers[w].at = "sleep"
              /\ workers[w].delay = 300 /\ workers[w].passes = n)
          ~> (w \in DOMAIN workers /\
                (workers[w].passes > n \/ workers[w].cancelling
                    \/ workers[w].at = "done"))

C19_Witness ==
    \E w \in DOMAIN workers :
        /\ workers[w].at = "sleep" /\ workers[w].delay = 3600
        /\ workers[w].failed > 0 /\ workers[w].passes > workers[w].failed

\* the cleanup tasks that are not done
ActiveWorkers == {w \in DOMAIN workers : workers[w].at # "done"}

\* ---- C20
\* At most one cleanup worker task is active at any time, and it is the
\* one the JobManager holds.
C20_OneCleanupTask ==
    /\ Cardinality(ActiveWorkers) <= 1
    /\ \A w \in ActiveWorkers : cleanup_task = w

C20_Witness ==
    /\ Cardinality(ActiveWorkers) = 1
    /\ \E w \in DOMAIN workers : workers[w].at = "done"
    /\ \E w \in ActiveWorkers : workers[w].passes > 0

\* ---- C21
\* Once shutdown has been called no cleanup pass runs and no cleanup task is
\* created any more, whatever start_cleanup_task calls are still to run.
C21_NoCleanupAfterShutdown ==
    [][executor_shutdown =>
         /\ DOMAIN workers' = DOMAIN workers
         /\ \A w \in DOMAIN workers : ~PassStep(w)]_vars

\* the jobs a cleanup pass run now would select
Selected == OldJobs(store, Cutoff)

\* ---- C22
\* In a cleanup pass in which the removal of one old job fails (its
\* directory, or its row when the deletes are sent at the commit), every
\* other old job of the pass has its row deleted and its directory removed.
C22_Step(w) ==
    (CleanupPass(w, "commit") \/ \E f \in SweepIds : CleanupPassPartial(w, f)) =>
        Cardinality({j \in Selected : j \in DOMAIN store' \/ j \in dirs'}) <= 1

C22_SweepIsolated == [][\A w \in TaskIds : C22_Step(w)]_vars

\* ---- C23
\* A cleanup pass leaves every PROCESSING job alone, whatever its age: its
\* record stays as it is, its output directory stays, and the process_job
\* task working on it stays where it is.
C23_Step(j) ==
    (IsCleanupStep /\ j \in DOMAIN store /\ store[j].status = PROCESSING) =>
        /\ j \in DOMAIN store' /\ store'[j] = store[j]
        /\ j \in dirs => j \in dirs'
        /\ j \in DOMAIN pc => (pc'[j] = pc[j] /\ result'[j] = result[j])

C23_ProcessingUntouched == [][\A j \in JobIds : C23_Step(j)]_vars

C23_Witness ==
    /\ sweeps > 0
    /\ \E j \in NewIds :
          /\ pc[j] = "extracting" /\ j \in dirs
          /\ j \in DOMAIN store /\ store[j].status = PROCESSING
          /\ store[j].started_at < Cutoff
    /\ \E k \in LegacyIds : k \notin DOMAIN store

\* ---- C24
\* get_job returns not-found for an id that is not in the store, and for
\* every id whose record a cleanup pass has deleted it returns not-found
\* ever after, restarts that run the legacy import again included.
C24_DeletedStaysGone ==
    /\ \A k \in FileIds \cup JobIds :
          k \notin DOMAIN store => get_job(store, k) = "not_found"
    /\ \A k \in deleted : get_job(store, k) = "not_found"

\* the step is a call that only reads
IsReadStep ==
    \/ \E job_id \in ReadJobIds : GetJobStatus(job_id) \/ GetJobResult(job_id)
    \/ \E job_id \in ReadJobIds : \E zip_fault \in ZipFaults : Download(job_id, zip_fault)
    \/ \E limit \in Limits : \E status \in StatusFilters : ListJobs(limit, status)

\* ---- C25
\* The status, result, list and download requests leave the store as it is.
\* A record is added only by create_job, changed only by a step of the
\* process_job task of its own job, and removed only by a cleanup pass (or
\* written by the legacy import).
C25_Step(j) ==
    LET before == IF j \in DOMAIN store THEN <<store[j]>> ELSE << >>
        after == IF j \in DOMAIN store' THEN <<store'[j]>> ELSE << >>
    IN  before # after =>
            \/ before = << >> /\ j \in DOMAIN pc /\ pc[j] = "none" /\ pc'[j] = "queued"
            \/ before # << >> /\ after # << >> /\ j \in DOMAIN pc /\ pc'[j] # pc[j]
            \/ after = << >> /\ IsCleanupStep
            \/ IsImportStep

C25_ReadsDoNotWrite ==
    [][/\ IsReadStep => store' = store
       /\ \A j \in ReadJobIds : C25_Step(j)]_vars

C25_Witness ==
    /\ response.detail = "jobs" /\ Len(listing) = 1
    /\ listing[1] \in DOMAIN zips
    /\ store[listing[1]].status = COMPLETED
    /\ deleted # {}

\* the jobs of a list, as a set
Listed(seq) == {seq[i] : i \in DOMAIN seq}

\* ---- C26
\* list_jobs(limit) returns at most limit jobs (none for a limit below 1),
\* in an order in which created_at does not increase; they are
\* min(limit, number of jobs) different jobs of the store, and no job left
\* out was created after one that is listed.
C26_Listed(jobs, limit) ==
    LET cap == IF limit < 0 THEN 0 ELSE limit IN
    /\ Len(jobs) <= cap
    /\ Listed(jobs) \subseteq DOMAIN store
    /\ \A a, b \in DOMAIN jobs : a < b =>
          (jobs[a] # jobs[b] /\ store[jobs[a]].created_at >= store[jobs[b]].created_at)
    /\ Len(jobs) = IF cap < Cardinality(DOMAIN store)
                   THEN cap ELSE Cardinality(DOMAIN store)
    /\ \A k \in Listed(jobs) : \A o \in DOMAIN store \ Listed(jobs) :
          store[o].created_at <= store[k].created_at

C26_ListNewestFirst ==
    [][\A limit \in Limits : ListJobs(limit, None) => C26_Listed(listing', limit)]_vars

\* the registrations that can handle a file with this suffix
Able(suffix) == {i \in DOMAIN extractors : can_extract(extractors[i].cls, suffix)}

\* ---- C27
\* create_extractor returns an extractor of the first registration, in
\* registration order, whose can_extract is true for the file (by extension
\* or by MIME type), and None exactly when no registration can handle it.
\* With the built-in registrations .pdf, .docx and .doc, .xlsx and .xls and
\* .md give the PDF, DOCX, XLSX and Markdown extractors and .txt gives
\* None.
C27_Step(suffix) ==
    CreateExtractor(suffix) =>
        /\ created'.cls = None <=> Able(suffix) = {}
        /\ \A i \in Able(suffix) :
              (\A k \in Able(suffix) : i <= k) => created'.cls = extractors[i].cls
        /\ extractors = Registry =>
              /\ suffix = ".pdf" => created'.cls = "PDFExtractor"
              /\ suffix \in {".docx", ".doc"} => created'.cls = "DOCXExtractor"
              /\ suffix \in {".xlsx", ".xls"} => created'.cls = "XLSXExtractor"
              /\ suffix = ".md" => created'.cls = "MarkdownExtractor"
              /\ suffix = ".txt" => created'.cls = None

C27_CreateFirstAble == [][\A suffix \in Suffixes : C27_Step(suffix)]_vars

C27_Witness ==
    /\ created.file = ".md" /\ created.cls = "PlainExtractor"
    /\ \E i, k \in Able(".md") : i < k /\ extractors[k].cls = "MarkdownExtractor"
    /\ Len(extractors) = Cardinality(RegNames)

\* the files of a job's directory other than its archive, by their paths
\* below the directory
FilesOf(fs, job_id) ==
    { relative_to(e.path, JobOutputDir(job_id)) :
        e \in {f \in fs : /\ f.is_file
                          /\ IsUnder(f.path, JobOutputDir(job_id))
                          /\ f.path # JobOutputDir(job_id) \o <<ZipName(job_id)>>} }

\* ---- C28
\* When create_result_zip returns an archive, its entries are the files of
\* the job's directory at that moment, those under images/ included, each
\* under its path relative to the directory, without the archive itself and
\* without any file of another job; the call leaves these files as they
\* were, so a second call on the unchanged directory writes the same
\* entries.
C28_Step(job_id) ==
    (CreateResultZip(job_id, "none") /\ archive'[job_id].ret # NoPath) =>
        /\ archive'[job_id].entries = FilesOf(tree, job_id)
        /\ FilesOf(tree', job_id) = FilesOf(tree, job_id)
        /\ \A k \in ZipIds \ {job_id} : FilesOf(tree', k) = FilesOf(tree, k)
        /\ job_id \in DOMAIN archive /\ archive[job_id].ret # NoPath /\ tree' = tree
              => archive'[job_id].entries = archive[job_id].entries

C28_ArchiveIsDirectory == [][\A job_id \in ZipIds : C28_Step(job_id)]_vars

C28_Witness ==
    \E job_id \in DOMAIN archive :
        /\ archive[job_id].ret # NoPath
        /\ <<"images", "page_1_img_1.png">> \in archive[job_id].entries
        /\ <<"content.txt">> \in archive[job_id].entries
        /\ File(JobOutputDir(job_id) \o <<ZipName(job_id)>>) \in tree
        /\ \E k \in ZipIds \ {job_id} : FilesOf(tree, k) # {}

\* the uploads whose job still has its row; an upload is saved when its job
\* is created
Staged == uploads \cap DOMAIN store

\* ---- C29
\* Every turn of the periodic cleanup sweeps the uploads directory too: an
\* upload older than uploads_cleanup_hours is not on disk after it.
C29_UploadsSwept ==
    [][CleanupOldJobs =>
         Staged \cap uploads' \subseteq
            cleanup_uploads_dir(Staged, [j \in Staged |-> store[j].created_at],
                                clock, UploadsCleanupHours)]_vars

\* ---- C30
\* A job is PROCESSING only once its task holds a worker of the pool, so
\* the jobs whose status is PROCESSING are never more than max_workers.
C30_ProcessingWithinWorkers ==
    Cardinality({j \in DOMAIN store : store[j].status = PROCESSING}) <= MaxWorkers

\* ---- C31
\* When shutdown returns, no job is PROCESSING: every job that was being
\* processed has its extraction finished and COMPLETED or FAILED in the
\* store.
C31_ShutdownDrains ==
    [][Shutdown => \A j \in DOMAIN store' : store'[j].status # PROCESSING]_vars

\* r's request ends in this step, answered status_code
RejectedNow(r, status_code) ==
    /\ reqs[r].at # "rejected"
    /\ reqs'[r].at = "rejected"
    /\ reqs'[r].status_code = status_code

\* ---- C32
\* A request that is rejected for its file (400: no filename, unsupported
\* extension, no extractor; 413: too large) has created no job: the step
\* that rejects it leaves the store and the process_job tasks as they were,
\* and a rejected request has no job id.
C32_Step(r) ==
    (RejectedNow(r, 400) \/ RejectedNow(r, 413)) =>
        /\ store' = store
        /\ pc' = pc
        /\ reqs'[r].job_id = Null

C32_RejectedBeforeJob == [][\A r \in UploadReqs : C32_Step(r)]_vars

C32_Witness ==
    \E r, q \in UploadReqs :
        /\ reqs[r].at = "rejected" /\ reqs[r].status_code = 400
        /\ reqs[r].file_path # << >>
        /\ reqs[q].at = "accepted" /\ reqs[q].job_id \in DOMAIN store

\* the jobs of the store that a reader sees with this status
WithStatus(status) == {k \in DOMAIN store : JobInfo(store[k]).status = status}

\* ---- C33
\* A listing with a status filter returns the jobs of that status up to
\* the limit: when k jobs of the status exist and k <= limit, at least k
\* jobs are returned, whatever other jobs the store holds.
C33_Step(limit, status) ==
    ListJobs(limit, status) =>
        \A k \in 0..Cardinality(DOMAIN store) :
            (k <= Cardinality(WithStatus(status)) /\ k <= limit) => Len(listing') >= k

C33_FilteredListFull ==
    [][\A limit \in Limits : \A status \in JobStatus : C33_Step(limit, status)]_vars

\* ---- C34
\* While a download response is reading a job's archive, no step writes
\* the archive anew and none removes it.
C34_Step(job_id) ==
    job_id \in sending =>
        /\ ~(\E zip_fault \in {"none", "write"} :
                Download(job_id, zip_fault) /\ response'.status_code \in {200, 500})
        /\ job_id \in DOMAIN zips'

C34_ArchiveStableWhileSent == [][\A job_id \in JobIds : C34_Step(job_id)]_vars

\* ---- C35
\* Every accepted upload has a staging path of its own, so what a job's
\* extraction reads at its path is the content its own request wrote: not
\* another upload's content, and not a file that is gone.
C35_OwnInput ==
    \A r \in UploadReqs :
        (reqs[r].at = "accepted" /\ reqs[r].read # << >>) => reqs[r].read = <<r>>

\* ---- C36
\* A request that save_upload_file rejects leaves no staging file: when the
\* call raises, the file it made at its path, if it made one, is gone.  (A
\* path that another request uses as well is left aside.)
C36_Step(r) ==
    (\E status_code \in {400, 413, 500} : RejectedNow(r, status_code)) =>
        \/ reqs'[r].file_path \notin DOMAIN staging'
        \/ \E q \in UploadReqs \ {r} : reqs'[q].file_path = reqs'[r].file_path

C36_RejectedLeavesNothing == [][\A r \in UploadReqs : C36_Step(r)]_vars

\* ---- C37
\* A job that a reader sees as COMPLETED has its output directory on disk,
\* with extraction_log.json in it, and a job whose row a cleanup pass has
\* deleted has no directory: rows and directories go together.
C37_RowAndDirectory ==
    /\ \A j \in DOMAIN store :
          JobInfo(store[j]).status = COMPLETED => j \in dirs /\ j \in DOMAIN logs
    /\ \A j \in deleted \ DOMAIN store : j \notin dirs

\* ---- C38
\* On every row that create_job and process_job have written, the
\* timestamps that are set are in order, created_at <= started_at <=
\* completed_at, and the processing time of a finished job is not negative.
C38_TimestampsOrdered ==
    \A j \in DOMAIN store \cap NewIds :
        /\ store[j].started_at # Null => store[j].created_at <= store[j].started_at
        /\ store[j].completed_at # Null =>
              /\ store[j].started_at # Null
              /\ store[j].started_at <= store[j].completed_at
              /\ store[j].processing_time >= 0

C38_Witness ==
    \E j \in DOMAIN store \cap NewIds :
        /\ store[j].status = COMPLETED
        /\ store[j].created_at < store[j].started_at
        /\ store[j].started_at < store[j].completed_at
        /\ store[j].processing_time > 0

\* ---- C39
\* An import from a file that holds a malformed record adds nothing to the
\* store and changes none of its rows.
C39_ImportAllOrNothing ==
    [][(IsImportStep /\ \E k \in DOMAIN legacy : Raises(legacy[k])) => store' = store]_vars

\* the malformed records the import reads: those whose id is not in the store
Unread == {k \in DOMAIN legacy \ DOMAIN store : Raises(legacy[k])}

\* C39, amended: an import from a file that holds a malformed record under
\* an id that is not in the store adds nothing to the store, the well-formed
\* records read before the malformed one included, and changes none of its
\* rows.
C39_ImportAllOrNothingRead ==
    [][(IsImportStep /\ Unread # {}) => store' = store]_vars

\* an import has just met a malformed record after a well-formed one it had
\* read
C39_Witness ==
    /\ imports > 0
    /\ \E k \in Unread : \E j \in DOMAIN legacy \ DOMAIN store :
          j < k /\ ~Raises(legacy[j])

====
